---- MODULE Spec2Model ----
(***************************************************************************)
(* A model of the synchronization engine of gh-migrate-packages:           *)
(*   - PackageSync.processConcurrently with its package workers, version   *)
(*     goroutines and the reportValidation aggregator (pkg/sync),          *)
(*   - the sequential loop of SyncPackages (pkg/sync),                     *)
(*   - the paginated, rate-limit-aware catalog fetch (pkg/api),             *)
(*   - UploadManager.ContainerUpload with retryableUpload (pkg/api),       *)
(*   - the package validators and the size check of UploadPackageVersion,  *)
(*   - LoadMappings and the sync command from Execute to its exit (cmd),    *)
(*   - UploadManager.MavenUpload and the npm, nuget and rubygems uploads,   *)
(*   - downloadPackages of the export command.                              *)
(* Remote calls (download, upload, existence probe, GraphQL queries) are   *)
(* the environment: each call picks its outcome nondeterministically.      *)
(***************************************************************************)
EXTENDS Integers, Sequences, FiniteSets, TLC

VARIABLES
    mode,           \* which entry point runs: "concurrent", "sequential", "fetch", ...
    packages,       \* the input package list ([]pkg.Package)
    mappings,       \* PackageSync.mappings
    skipExisting,   \* viper SKIP_EXISTING
    \* ---- processConcurrently
    mainPc,         \* position of the spawning loop / join
    nextPkg,        \* index of the next package of `for _, p := range packages`
    sem,            \* number of tokens held in the sem channel
    wg,             \* counter of the package WaitGroup
    wpc,            \* wpc[i]: position of package worker i
    validated,      \* validated[i]: how often ValidatePackage ran for package i
    valErr,         \* valErr[i]: the error ValidatePackage returned
    targetName,     \* targetName[i]: the worker's local targetName
    vers,           \* vers[i][j]: state of version goroutine j of package i
    versionErrors,  \* versionErrors[i]: content of the buffered channel
    report,         \* report[i]: the worker's ValidationReport
    resultsClosed,  \* close(results) has happened
    rpc,            \* position of reportValidation
    table,          \* the data rows reportValidation has appended
    counts,         \* successCount / failureCount / partialCount
    rendered,       \* what reportValidation has rendered (NoRender before)
    \* ---- SyncPackages
    spc,            \* position of the sequential loop
    si,             \* index of the current package
    sj,             \* index of the current version
    sTarget,        \* the loop's local targetName
    sValidated,     \* sValidated[i]: how often ValidatePackage ran for package i
    sValErr,        \* sValErr[i]: the error ValidatePackage returned
    sLog,           \* the download and upload calls of the loop, in order, with outcome
    \* ---- requests observed at the two registries
    downloads,      \* download requests: [idx, name, ver]
    uploads,        \* upload requests: [idx, name, ver]
    metas,          \* metadata requests: [idx, name, ver]
    visibs,         \* visibility requests: [idx, name]
    probesExist,    \* existence probes: [idx, name] with the answer received
    \* ---- GetOrganizationPackages / RateLimitAwareGraphQLClient.Query
    pages,          \* what the server holds: pages[k] = number of nodes of page k
    fpc,            \* position of the fetch
    after,          \* variables["after"]: NoCursor or the cursor to send
    acc,            \* the local `packages` slice of GetOrganizationPackages
    fetchResult,    \* the returned slice
    fetchErr,       \* the returned error (NoErr when nil)
    now,            \* the clock
    lastProbe,      \* the rateLimitQuery result of the latest probe
    sleptSince,     \* a time.Sleep happened since the latest probe
    zeroResets,     \* reset times declared by probes with remaining = 0 so far
    zeroProbes,     \* number of probes that reported remaining = 0
    probesSince,    \* probes made since the previous page request
    requests,       \* the page requests issued, in order
    \* ---- UploadManager.ContainerUpload / retryableUpload
    opts,           \* the UploadOptions of the call
    ctxDone,        \* the context of the call is cancelled
    upc,            \* position of ContainerUpload
    nextFile,       \* index of the next file of `for _, file := range opts.Files`
    lsem,           \* number of tokens held in ContainerUpload's sem channel
    lpc,            \* lpc[k]: position of the goroutine of file k
    layerCalls,     \* layerCalls[k]: calls of uploadContainerLayer for file k
    layerResults,   \* content of the layerResults channel
    layerErrors,    \* content of the layerErrors channel
    manifest,       \* the generated manifest (NoManifest before)
    attempt,        \* retryableUpload: the loop variable
    fnCalls,        \* retryableUpload: calls of fn, each with its outcome
    lastErr,        \* retryableUpload: lastErr
    waits,          \* retryableUpload: the backoff waits that elapsed, in units of retryDelay
    upResult,       \* what ContainerUpload returned (Pending before)
    \* ---- the blob store of the target registry
    blobs,          \* digests of the layers the target holds
    puts,           \* the layer uploads (PUT) the target accepted, in order
    \* ---- one call of a validator method or of UploadPackageVersion
    vIn,            \* the argument: package type, name, files
    vOut,           \* the result (NoOut before the call)
    \* ---- the sync command
    argsOk,         \* cobra accepts the command line
    mappingFile,    \* the file --mapping-file names
    cpc,            \* position of Execute / SyncPackages
    loadOut,        \* what LoadMappings returned (NoLoad before)
    topFailure,     \* the top-level failure that was reported (NoErr when none)
    exitCode,       \* the exit status of the process (NotExited before)
    \* ---- UploadManager.MavenUpload, NPMUpload, NuGetUpload, RubyGemsUpload
    tpc,            \* position of the upload method
    tfiles,         \* tfiles[k]: the retryableUpload of file k and what the target holds of it
    tsem,           \* number of tokens held in MavenUpload's sem channel
    uploadErrors,   \* content of the uploadErrors channel
    tResult,        \* what the upload method returned (Pending before)
    \* ---- downloadPackages of the export command
    eVersions,      \* the versions to download: eVersions[v] = the sizes of its files
    eNext,          \* index of the next version of the spawning loops
    semaphore,      \* number of tokens held in the semaphore channel
    eg,             \* eg[v]: position and registers of the goroutine of version v
    result,         \* the shared downloadResult
    eTally,         \* what happened: downloads that succeeded, failures, bytes stored
    eReturned       \* downloadPackages returned `result`

concVars == <<mainPc, nextPkg, sem, wg, wpc, validated, valErr, targetName, vers,
              versionErrors, report, resultsClosed, rpc, table, counts, rendered>>
seqVars == <<spc, si, sj, sTarget, sValidated, sValErr, sLog>>
logVars == <<downloads, uploads, metas, visibs, probesExist>>
fetchVars == <<pages, fpc, after, acc, fetchResult, fetchErr, now, lastProbe,
               sleptSince, zeroResets, zeroProbes, probesSince, requests>>
uploadVars == <<opts, ctxDone, upc, nextFile, lsem, lpc, layerCalls, layerResults,
                layerErrors, manifest, attempt, fnCalls, lastErr, waits, upResult>>
registryVars == <<blobs, puts>>
cmdVars == <<argsOk, mappingFile, cpc, loadOut, topFailure, exitCode>>
typedVars == <<tpc, tfiles, tsem, uploadErrors, tResult>>
exportVars == <<eVersions, eNext, semaphore, eg, result, eTally, eReturned>>
validVars == <<vIn, vOut>>
inputVars == <<mode, packages, mappings, skipExisting>>
vars == <<inputVars, concVars, seqVars, logVars, fetchVars, uploadVars, registryVars,
          validVars, cmdVars, typedVars, exportVars>>

-----------------------------------------------------------------------------
(* Bounds of the model *)

\* largest package list of the detailed runs, counted as its number of
\* packages plus its number of versions
MaxSize == 4
\* how many packages more than the token pool holds the long lists have
OverPool == 1

\* most pages the server holds
MaxPages == 3
\* most package nodes on one page
MaxNodes == 1
\* latest clock value and latest declared reset time
MaxTime == 2
\* most probes of one fetch that report remaining = 0
MaxZeroProbes == 2
\* most files of one container version
MaxFiles == 2
\* longest package name given to a validator
MaxNameLen == 2
\* most files of a version given to a validator
MaxVersionFiles == 3
\* most files of one call of UploadPackageVersion
MaxUploadFiles == 2
\* most records of a mapping file
MaxRecords == 3
\* most fields of a record of a mapping file
MaxFields == 3
\* largest package list the catalog fetch of a sync command returns
MaxFetched == 2

(* Program constants *)

\* const maxConcurrent = 5
maxConcurrent == 5
\* maxRetries: 3 (the retry count the repository configures)
maxRetries == 3
\* concurrency: 5 (NewUploadManager)
concurrency == 5

NoErr == "nil"
\* the errors of the calls of one operation, told apart by the call's ordinal
ErrOfCall(k) == <<"error of call 1", "error of call 2", "error of call 3",
                  "error of call 4", "error of call 5">>[k]
NoName == "none"
NoRender == [drawn |-> FALSE]

PkgNames == <<"pkgA", "pkgB", "pkgC", "pkgD", "pkgE", "pkgF", "pkgG", "pkgH">>
VerNames == <<"v1", "v2", "v3", "v4", "v5", "v6", "v7", "v8">>
SupportedTypes == {"container", "npm", "maven", "nuget", "rubygems"}

-----------------------------------------------------------------------------
(* Packages, as the validators see them.  nameOk: the name obeys the        *)
(* package-level rule of its type; filesOk: the version obeys the          *)
(* version-level rule.                                                     *)

PkgKinds == {"ok", "badName", "badType", "badVersion"}

MkPkg(i, kind, n) ==
    [name |-> PkgNames[i],
     ptype |-> IF kind = "badType" THEN "generic" ELSE "container",
     nameOk |-> kind # "badName",
     versions |-> [j \in 1..n |->
                     [name |-> VerNames[j],
                      filesOk |-> ~(kind = "badVersion" /\ j = 1)]]]

\* the size of a package list: its packages plus all their versions
RECURSIVE ListSize(_)
ListSize(ps) ==
    IF ps = <<>> THEN 0
    ELSE 1 + Len(ps[Len(ps)].versions) + ListSize(SubSeq(ps, 1, Len(ps) - 1))

\* the packages a list may hold at position i when `room` is left: a valid
\* package with any number of versions that fits, or a package with one
\* version that fails validation in one of the three ways
PackagesAt(i, room) ==
    {MkPkg(i, "ok", n) : n \in 0..(room - 1)} \cup
    {MkPkg(i, k, 1) : k \in IF room >= 2 THEN PkgKinds \ {"ok"} ELSE {}}

\* every package list of size at most maxSize
RECURSIVE ListsFrom(_, _)
ListsFrom(prefix, room) ==
    {prefix} \cup
    UNION {ListsFrom(Append(prefix, p), room - 1 - Len(p.versions)) :
             p \in PackagesAt(Len(prefix) + 1, room)}

PackageLists(maxSize) == ListsFrom(<<>>, maxSize)

\* Lists longer than the token pool: a package with one version, a package
\* that fails validation, then packages without versions.
ManyLists(maxLen) ==
    {[i \in 1..len |-> IF i = 1 THEN MkPkg(1, "ok", 1)
                       ELSE IF i = 2 THEN MkPkg(2, "badName", 0)
                       ELSE MkPkg(i, "ok", 0)] : len \in 2..maxLen}

MappingTables ==
    {<<>>,
     [n \in {"pkgA"} |-> "pkgA2"],
     [n \in {"pkgB", "pkgZ"} |-> IF n = "pkgB" THEN "pkgA" ELSE "pkgY"]}

Names == {PkgNames[i] : i \in DOMAIN PkgNames} \cup {"pkgA2", "pkgZ", "pkgY"}

-----------------------------------------------------------------------------
(* pkg/package: validation dispatch *)

\* GetValidator: an error for every type outside the five supported ones
GetValidatorDefaultsToContainer(ptype) == NoErr

GetValidator(ptype) ==
    IF ptype \in SupportedTypes THEN NoErr ELSE "unsupported package type"

\* ValidatePackage(pkg): validator lookup, the package-level rule, then the
\* version-level rule of every version; the first error is returned
ValidatePackage(p) ==
    IF GetValidator(p.ptype) # NoErr THEN GetValidator(p.ptype)
    ELSE IF ~p.nameOk THEN "invalid package name"
    ELSE IF \E j \in DOMAIN p.versions : ~p.versions[j].filesOk
         THEN "invalid version"
    ELSE NoErr

-----------------------------------------------------------------------------
(* pkg/package: the five validators.  A package name is a sequence of       *)
(* characters; a file name is a sequence of name parts, so that prefix,     *)
(* suffix and equality tests work as on the string.                         *)

NoIn == [ptype |-> "", name |-> <<>>, files |-> {}]
NoOut == [done |-> FALSE]

\* strings.Contains(s, c) for a single character c
Contains(s, c) == \E k \in DOMAIN s : s[k] = c

\* strings.HasPrefix(s, prefix)
HasPrefix(s, prefix) ==
    Len(s) >= Len(prefix) /\ SubSeq(s, 1, Len(prefix)) = prefix

\* strings.HasSuffix(s, suffix)
HasSuffix(s, suffix) ==
    Len(s) >= Len(suffix) /\ SubSeq(s, Len(s) - Len(suffix) + 1, Len(s)) = suffix

\* strings.Split(s, sep) for a single character sep: the pieces between the
\* separators, one more than there are separators
RECURSIVE Split(_, _)
Split(s, sep) ==
    IF ~Contains(s, sep) THEN <<s>>
    ELSE LET k == CHOOSE k \in DOMAIN s :
                     s[k] = sep /\ \A m \in 1..(k - 1) : s[m] # sep
         IN  <<SubSeq(s, 1, k - 1)>> \o Split(SubSeq(s, k + 1, Len(s)), sep)

\* strings.ContainsAny(s, chars)
ContainsAny(s, chars) == \E k \in DOMAIN s : s[k] \in chars

\* strings.ToLower(s), on the letters of the model
ToLower(s) == [k \in DOMAIN s |-> IF s[k] = "A" THEN "a" ELSE s[k]]

\* the characters of "!@#$%^&*()+=[]{}|\\:;\"'<>?,/"
NuGetForbidden ==
    {"!", "@", "#", "$", "%", "^", "&", "*", "(", ")", "+", "=", "[", "]", "{",
     "}", "|", "\\", ":", ";", "\"", "'", "<", ">", "?", ",", "/"}

\* the characters of " !@#$%^&*()+=[]{}|\\:;\"'<>?,/"
RubyGemsForbidden == {" "} \cup NuGetForbidden

ContainerValidatePackage(name) ==
    IF Contains(name, ":") THEN "container name cannot contain ':' character"
    ELSE NoErr

NpmValidatePackage(name) ==
    IF ~HasPrefix(name, <<"@">>)
    THEN "npm package name must start with '@' for scoped packages"
    ELSE NoErr

MavenValidatePackageAtLeastOne(name) ==
    IF Len(Split(name, ":")) < 2
    THEN "maven package name must be in format 'groupId:artifactId'"
    ELSE NoErr

MavenValidatePackage(name) ==
    IF Len(Split(name, ":")) # 2
    THEN "maven package name must be in format 'groupId:artifactId'"
    ELSE NoErr

NuGetValidatePackage(name) ==
    IF ContainsAny(name, NuGetForbidden)
    THEN "invalid package name: must follow .NET namespace conventions"
    ELSE NoErr

RubyGemsValidatePackage(name) ==
    IF ContainsAny(name, RubyGemsForbidden)
    THEN "invalid package name: can only contain alphanumeric characters, dashes, and underscores"
    ELSE IF ToLower(name) # name THEN "package name must be lowercase"
    ELSE NoErr

\* validator.ValidatePackage(pkg) of the validator GetValidator returns
ValidatorValidatePackage(ptype, name) ==
    CASE ptype = "container" -> ContainerValidatePackage(name)
      [] ptype = "npm" -> NpmValidatePackage(name)
      [] ptype = "maven" -> MavenValidatePackage(name)
      [] ptype = "nuget" -> NuGetValidatePackage(name)
      [] ptype = "rubygems" -> RubyGemsValidatePackage(name)

\* the characters package names are made of: letters, a digit, a dash, the
\* space and every character one of the validators looks for
NameChars == {"a", "A", "1", "-"} \cup RubyGemsForbidden

\* the package names of at most maxLen characters
NamesUpTo(maxLen) == UNION {[1..n -> NameChars] : n \in 0..maxLen}

\* the type strings given to GetValidator: the five supported ones and others
TypeStrings == SupportedTypes \cup {"generic", "NPM", ""}

\* one call of the package-level rule: GetValidator, then the validator's
\* ValidatePackage
ApplyPackageRule ==
    /\ mode = "packageRule"
    /\ ~vOut.done
    /\ vOut' = [done |-> TRUE,
                err |-> IF GetValidator(vIn.ptype) # NoErr THEN GetValidator(vIn.ptype)
                        ELSE ValidatorValidatePackage(vIn.ptype, vIn.name)]
    /\ UNCHANGED vIn
    /\ UNCHANGED <<inputVars, concVars, seqVars, logVars, fetchVars, uploadVars,
                   registryVars, cmdVars,
                   typedVars, exportVars>>

\* File.Size in bytes, kept as whole MiB plus the bytes beyond them
Size(mib, bytes) == [mib |-> mib, bytes |-> bytes]

\* a > b on sizes
Larger(a, b) == a.mib > b.mib \/ (a.mib = b.mib /\ a.bytes > b.bytes)

\* a >= b on sizes
LargerOrEqual(a, b) == a.mib > b.mib \/ (a.mib = b.mib /\ a.bytes >= b.bytes)

\* 10*1024*1024*1024, the layer limit of ContainerValidator.ValidateVersion
ContainerLayerLimit == Size(10 * 1024, 0)

\* 2*1024*1024, the metadata.gz limit of RubyGemsValidator.ValidateVersion
MetadataLimit == Size(2, 0)

ContainerValidateVersionInclusive(files) ==
    IF \E f \in files : LargerOrEqual(f.size, ContainerLayerLimit)
    THEN "file exceeds 10GB layer limit"
    ELSE NoErr

ContainerValidateVersion(files) ==
    IF \E f \in files : Larger(f.size, ContainerLayerLimit)
    THEN "file exceeds 10GB layer limit"
    ELSE NoErr

NpmValidateVersion(files) ==
    IF ~\E f \in files : f.name = <<"package", ".json">>
    THEN "missing required package.json file"
    ELSE NoErr

MavenValidateVersion(files) ==
    IF ~\E f \in files : f.name = <<"pom", ".xml">>
    THEN "missing required pom.xml file"
    ELSE NoErr

NuGetValidateVersion(files) ==
    IF ~\E f \in files : HasSuffix(f.name, <<".nupkg">>)
    THEN "missing required .nupkg file"
    ELSE IF ~\E f \in files : HasSuffix(f.name, <<".nuspec">>)
    THEN "missing required .nuspec file"
    ELSE NoErr

RubyGemsValidateVersion(files) ==
    IF ~\E f \in files : HasSuffix(f.name, <<".gem">>)
    THEN "missing required .gem file"
    ELSE IF ~\E f \in files : HasSuffix(f.name, <<".gemspec">>)
    THEN "missing required .gemspec file"
    ELSE IF \E f \in files :
              HasSuffix(f.name, <<"metadata", ".gz">>) /\ Larger(f.size, MetadataLimit)
    THEN "metadata.gz file must be less than 2MB"
    ELSE NoErr

\* validator.ValidateVersion(ver) of the validator GetValidator returns; the
\* verdict does not depend on the order of ver.Files, which are kept as a set
ValidatorValidateVersion(ptype, files) ==
    CASE ptype = "container" -> ContainerValidateVersion(files)
      [] ptype = "npm" -> NpmValidateVersion(files)
      [] ptype = "maven" -> MavenValidateVersion(files)
      [] ptype = "nuget" -> NuGetValidateVersion(files)
      [] ptype = "rubygems" -> RubyGemsValidateVersion(files)

\* the file names given to the version rules: the required names, a name
\* that only ends like a required one, and two names ending in metadata.gz
PlainFileNames ==
    {<<"package", ".json">>, <<"x", "package", ".json">>, <<"pom", ".xml">>,
     <<"a", ".nupkg">>, <<"a", ".nuspec">>, <<"a", ".gem">>, <<"a", ".gemspec">>}

MetadataFileNames == {<<"metadata", ".gz">>, <<"x", "metadata", ".gz">>}

\* the files given to the version rules: sizes at and one byte above the two
\* limits the rules know
VersionFilePool ==
    [name : PlainFileNames, size : {Size(10 * 1024, 0), Size(10 * 1024, 1)}] \cup
    [name : MetadataFileNames,
     size : {Size(2, 0), Size(2, 1), Size(10 * 1024, 0), Size(10 * 1024, 1)}]

\* the sets of at most maxFiles files of a pool
RECURSIVE FileSets(_, _)
FileSets(pool, maxFiles) ==
    IF maxFiles = 0 THEN {{}}
    ELSE LET smaller == FileSets(pool, maxFiles - 1)
         IN  smaller \cup {fs \cup {f} : fs \in smaller, f \in pool}

\* one call of the version-level rule: GetValidator, then the validator's
\* ValidateVersion
ApplyVersionRule ==
    /\ mode = "versionRule"
    /\ ~vOut.done
    /\ vOut' = [done |-> TRUE,
                err |-> IF GetValidator(vIn.ptype) # NoErr THEN GetValidator(vIn.ptype)
                        ELSE ValidatorValidateVersion(vIn.ptype, vIn.files)]
    /\ UNCHANGED vIn
    /\ UNCHANGED <<inputVars, concVars, seqVars, logVars, fetchVars, uploadVars,
                   registryVars, cmdVars,
                   typedVars, exportVars>>

-----------------------------------------------------------------------------
(* pkg/api: the size check of UploadPackageVersion *)

\* validator.GetMaxFileSize() of the five validators
GetMaxFileSizeNuGetAsNpm(ptype) ==
    CASE ptype = "container" -> Size(10 * 1024, 0)
      [] ptype = "npm" -> Size(256, 0)
      [] ptype = "maven" -> Size(1024, 0)
      [] ptype = "nuget" -> Size(256, 0)
      [] ptype = "rubygems" -> Size(512, 0)

GetMaxFileSize(ptype) ==
    CASE ptype = "container" -> Size(10 * 1024, 0)
      [] ptype = "npm" -> Size(256, 0)
      [] ptype = "maven" -> Size(1024, 0)
      [] ptype = "nuget" -> Size(250, 0)
      [] ptype = "rubygems" -> Size(512, 0)

\* `for _, filePath := range opts.Files`: os.Stat, then info.Size() > maxSize;
\* the first file that fails either check ends the loop with its error.
\* `failing` is the index of the file whose Stat fails (0: none does).
RECURSIVE SizeLoop(_, _, _, _)
SizeLoop(files, k, maxSize, failing) ==
    IF k > Len(files) THEN NoErr
    ELSE IF k = failing THEN "failed to stat file"
    ELSE IF Larger(files[k].size, maxSize) THEN "file exceeds maximum size"
    ELSE SizeLoop(files, k + 1, maxSize, failing)

\* the sizes given to UploadPackageVersion: each limit and one byte more
UploadSizes ==
    UNION {{Size(m, 0), Size(m, 1)} : m \in {250, 256, 512, 1024, 10 * 1024}}

\* the file lists of at most maxLen files given to UploadPackageVersion
UploadFileLists(maxLen) ==
    UNION {[1..n -> [name : {<<"f">>}, size : UploadSizes]] : n \in 0..maxLen}

\* UploadPackageVersion(opts): GetValidator, the size loop, then the upload
\* function of the package type, which is what sends requests to the target
UploadPackageVersion ==
    /\ mode = "uploadCheck"
    /\ ~vOut.done
    /\ \E failing \in 0..Len(vIn.files) :
        LET err == IF GetValidator(vIn.ptype) # NoErr THEN "invalid package type"
                   ELSE SizeLoop(vIn.files, 1, GetMaxFileSize(vIn.ptype), failing)
        IN  vOut' = [done |-> TRUE, err |-> err,
                     dispatched |-> IF err = NoErr THEN vIn.ptype ELSE "none"]
    /\ UNCHANGED vIn
    /\ UNCHANGED <<inputVars, concVars, seqVars, logVars, fetchVars, uploadVars,
                   registryVars, cmdVars,
                   typedVars, exportVars>>

ValidateNext ==
    \/ ApplyPackageRule
    \/ ApplyVersionRule
    \/ UploadPackageVersion

-----------------------------------------------------------------------------
(* pkg/sync: name resolution *)

\* the map after `targetName, exists := s.mappings[sourceName]`: a lookup
\* with the two-value form reads the map and leaves it as it is
MappingsAfterLookupInserting(m, sourceName) ==
    [n \in DOMAIN m \cup {sourceName} |-> IF n \in DOMAIN m THEN m[n] ELSE ""]

MappingsAfterLookup(m, sourceName) == m

getTargetPackageNameIdentity(sourceName) == sourceName

getTargetPackageName(sourceName) ==
    IF sourceName \in DOMAIN mappings THEN mappings[sourceName] ELSE sourceName

-----------------------------------------------------------------------------
(* pkg/sync: processConcurrently *)

PkgIdx == 1..Len(packages)
VerIdx(i) == 1..Len(packages[i].versions)

IdleVersion == [pc |-> "idle", retries |-> 0, dlCalls |-> 0, ulCalls |-> 0,
                err |-> NoErr, sleeps |-> <<>>, failed |-> FALSE]
NoReport == [Status |-> "", ErrorMessage |-> <<>>]

\* the runs of processConcurrently: against registries whose calls may fail,
\* and against registries that serve every call
ConcurrentModes == {"concurrent", "fanOut"}

\* the outcomes of a download or upload call: success or failure
CallOutcomes == IF mode = "fanOut" THEN {TRUE} ELSE BOOLEAN

\* `sem <- true` blocks while the channel buffer (capacity maxConcurrent) is full
SemHasRoomUnbounded == TRUE

SemHasRoom == sem < maxConcurrent

\* for _, p := range packages { wg.Add(1); sem <- true; go func(pkg) {...}(p) }
MainSpawn ==
    /\ mode \in ConcurrentModes
    /\ mainPc = "loop"
    /\ nextPkg <= Len(packages)
    /\ SemHasRoom
    /\ wg' = wg + 1
    /\ sem' = sem + 1
    /\ wpc' = [wpc EXCEPT ![nextPkg] = "validate"]
    /\ nextPkg' = nextPkg + 1
    /\ UNCHANGED <<mainPc, validated, valErr, targetName, vers, versionErrors,
                   report, resultsClosed, rpc, table, counts, rendered>>
    /\ UNCHANGED <<inputVars, seqVars, logVars, fetchVars, uploadVars, validVars, registryVars, cmdVars,
                   typedVars, exportVars>>

\* the worker returns right after reporting a validation error
ValidationShortCircuitsNever(err) == FALSE

ValidationShortCircuits(err) == err # NoErr

\* the report the worker builds when validation fails
FailedReport(err) == [Status |-> "Failed", ErrorMessage |-> <<err>>]

\* `for _, version := range pkg.Versions { versionWg.Add(1); go func(v) ... }`:
\* a goroutine is started for every version, and no token is asked for
VersionsStartedWithinPool(i) == {j \in VerIdx(i) : j <= maxConcurrent - sem}

VersionsStarted(i) == VerIdx(i)

\* worker: the report header, ValidatePackage, then either the Failed report
\* or name resolution and the fan-out of one goroutine per version
Validate(i) ==
    /\ mode \in ConcurrentModes
    /\ wpc[i] = "validate"
    /\ validated' = [validated EXCEPT ![i] = @ + 1]
    /\ LET err == ValidatePackage(packages[i]) IN
        /\ valErr' = [valErr EXCEPT ![i] = err]
        /\ IF ValidationShortCircuits(err)
           THEN /\ report' = [report EXCEPT ![i] = FailedReport(err)]
                /\ wpc' = [wpc EXCEPT ![i] = "sendFailed"]
                /\ UNCHANGED <<targetName, vers, mappings>>
           ELSE /\ targetName' =
                     [targetName EXCEPT ![i] = getTargetPackageName(packages[i].name)]
                /\ mappings' = MappingsAfterLookup(mappings, packages[i].name)
                /\ vers' = [vers EXCEPT ![i] =
                              [j \in VerIdx(i) |->
                                  IF j \in VersionsStarted(i)
                                  THEN [IdleVersion EXCEPT !.pc = "download"]
                                  ELSE IdleVersion]]
                /\ wpc' = [wpc EXCEPT ![i] = "waitVersions"]
                /\ UNCHANGED report
    /\ UNCHANGED <<mainPc, nextPkg, sem, wg, versionErrors, resultsClosed, rpc,
                   table, counts, rendered>>
    /\ UNCHANGED <<mode, packages, skipExisting, seqVars, logVars, fetchVars, uploadVars, validVars, registryVars, cmdVars,
                   typedVars, exportVars>>

\* the name a download request carries
DownloadName(i) == packages[i].name

\* the name an upload request carries
UploadNameSource(i) == packages[i].name

UploadName(i) == targetName[i]

\* `for retries := 0; retries < maxRetries; retries++`
DownloadLoopContinuesOneMore(retries) == retries <= maxRetries

DownloadLoopContinues(retries) == retries < maxRetries

\* the error sent on versionErrors: which step failed, for which version, and
\* the underlying error (errors of calls are told apart by the call's ordinal)
VersionError(op, ver, cause) == <<op, ver, cause>>

\* `time.Sleep(retryDelay * time.Duration(retries+1))`, in units of retryDelay
RetrySleepFactor(retries) == retries + 1

\* `if err == nil { break }`
DownloadBreaksNever(err) == FALSE

DownloadBreaks(err) == err = NoErr

\* version goroutine: one pass of the download retry loop.  `err` holds the
\* outcome of the latest call.  Unless the loop is left by break, the
\* goroutine sleeps retryDelay * (retries+1) and counts the retry.  After the
\* loop an error is sent on versionErrors and the goroutine ends; without an
\* error it goes on to the upload.
Download(i, j) ==
    /\ mode \in ConcurrentModes
    /\ vers[i][j].pc = "download"
    /\ DownloadLoopContinues(vers[i][j].retries)
    /\ downloads' = downloads \cup
          {[idx |-> i, name |-> DownloadName(i), ver |-> packages[i].versions[j].name]}
    /\ \E ok \in CallOutcomes :
        LET v == vers[i][j]
            called == [v EXCEPT !.dlCalls = @ + 1,
                                !.err = IF ok THEN NoErr ELSE ErrOfCall(v.dlCalls + 1)]
            looped == IF DownloadBreaks(called.err) THEN called
                      ELSE [called EXCEPT !.retries = @ + 1,
                                          !.sleeps = Append(@, RetrySleepFactor(v.retries))]
            leaves == DownloadBreaks(called.err) \/ ~DownloadLoopContinues(looped.retries)
        IN  IF ~leaves
            THEN /\ vers' = [vers EXCEPT ![i][j] = looped]
                 /\ UNCHANGED versionErrors
            ELSE IF looped.err # NoErr
            THEN /\ vers' = [vers EXCEPT ![i][j] =
                               [looped EXCEPT !.pc = "done", !.failed = TRUE]]
                 /\ versionErrors' = [versionErrors EXCEPT ![i] =
                       Append(@, VersionError("download",
                                 packages[i].versions[j].name, looped.err))]
            ELSE /\ vers' = [vers EXCEPT ![i][j] = [looped EXCEPT !.pc = "upload"]]
                 /\ UNCHANGED versionErrors
    /\ UNCHANGED <<mainPc, nextPkg, sem, wg, wpc, validated, valErr, targetName,
                   report, resultsClosed, rpc, table, counts, rendered>>
    /\ UNCHANGED <<inputVars, seqVars, metas, visibs, uploads, probesExist, fetchVars, uploadVars, validVars, registryVars, cmdVars,
                   typedVars, exportVars>>

\* version goroutine: the single upload call, its error sent on versionErrors
Upload(i, j) ==
    /\ mode \in ConcurrentModes
    /\ vers[i][j].pc = "upload"
    /\ uploads' = uploads \cup
          {[idx |-> i, name |-> UploadName(i), ver |-> packages[i].versions[j].name]}
    /\ \E ok \in CallOutcomes :
        /\ vers' = [vers EXCEPT ![i][j] =
                      [@ EXCEPT !.pc = "done", !.ulCalls = @ + 1, !.failed = ~ok,
                                !.err = IF ok THEN NoErr ELSE ErrOfCall(vers[i][j].ulCalls + 1)]]
        /\ versionErrors' =
             IF ok THEN versionErrors
             ELSE [versionErrors EXCEPT ![i] =
                     Append(@, VersionError("upload", packages[i].versions[j].name,
                                            ErrOfCall(vers[i][j].ulCalls + 1)))]
    /\ UNCHANGED <<mainPc, nextPkg, sem, wg, wpc, validated, valErr, targetName,
                   report, resultsClosed, rpc, table, counts, rendered>>
    /\ UNCHANGED <<inputVars, seqVars, metas, visibs, downloads, probesExist, fetchVars, uploadVars, validVars, registryVars, cmdVars,
                   typedVars, exportVars>>

\* versionWg.Wait(): every version goroutine has run its deferred Done
VersionsDoneNoWait(i) == TRUE

VersionsDone(i) == \A j \in VerIdx(i) : vers[i][j].pc = "done"

\* the status chosen from the collected errMsgs
ClassifyAlwaysSuccess(errMsgs) == [Status |-> "Success", ErrorMessage |-> <<>>]

Classify(errMsgs) ==
    IF Len(errMsgs) > 0
    THEN [Status |-> "Partial Success", ErrorMessage |-> errMsgs]
    ELSE [Status |-> "Success", ErrorMessage |-> <<>>]

\* reportValidation: the switch on report.Status
CountReportWithoutPartial(c, status) ==
    IF status = "Success" THEN [c EXCEPT !.success = @ + 1]
    ELSE IF status = "Failed" THEN [c EXCEPT !.failure = @ + 1]
    ELSE c

CountReport(c, status) ==
    IF status = "Success" THEN [c EXCEPT !.success = @ + 1]
    ELSE IF status = "Failed" THEN [c EXCEPT !.failure = @ + 1]
    ELSE IF status = "Partial Success" THEN [c EXCEPT !.partial = @ + 1]
    ELSE c

\* reportValidation: the table row of one report
Row(i, rep) ==
    [PackageName |-> packages[i].name,
     PackageType |-> packages[i].ptype,
     Status |-> rep.Status,
     VersionsCount |-> Len(packages[i].versions),
     ErrorMessage |-> rep.ErrorMessage]

\* `results <- report` meets `for report := range results`: the channel is
\* unbuffered, so the send and the aggregator's receive are one step
Deliver(i, rep) ==
    /\ rpc = "recv"
    /\ ~resultsClosed
    /\ report' = [report EXCEPT ![i] = rep]
    /\ table' = Append(table, Row(i, rep))
    /\ counts' = CountReport(counts, rep.Status)
    /\ wpc' = [wpc EXCEPT ![i] = "release"]

\* worker, validation failed: `results <- report; return`
SendFailed(i) ==
    /\ mode \in ConcurrentModes
    /\ wpc[i] = "sendFailed"
    /\ Deliver(i, report[i])
    /\ UNCHANGED <<mainPc, nextPkg, sem, wg, validated, valErr, targetName, vers,
                   versionErrors, resultsClosed, rpc, rendered>>
    /\ UNCHANGED <<inputVars, seqVars, logVars, fetchVars, uploadVars, validVars, registryVars, cmdVars,
                   typedVars, exportVars>>

\* worker: versionWg.Wait, close(versionErrors), drain it, set the status,
\* `results <- report`
CollectAndSend(i) ==
    /\ mode \in ConcurrentModes
    /\ wpc[i] = "waitVersions"
    /\ VersionsDone(i)
    /\ Deliver(i, Classify(versionErrors[i]))
    /\ UNCHANGED <<mainPc, nextPkg, sem, wg, validated, valErr, targetName, vers,
                   versionErrors, resultsClosed, rpc, rendered>>
    /\ UNCHANGED <<inputVars, seqVars, logVars, fetchVars, uploadVars, validVars, registryVars, cmdVars,
                   typedVars, exportVars>>

\* `<-sem`: the receive takes one token out of the channel
SemAfterReleaseKept(tokens) == tokens

SemAfterRelease(tokens) == tokens - 1

\* the worker's deferred function: <-sem; wg.Done()
Release(i) ==
    /\ mode \in ConcurrentModes
    /\ wpc[i] = "release"
    /\ sem' = SemAfterRelease(sem)
    /\ wg' = wg - 1
    /\ wpc' = [wpc EXCEPT ![i] = "done"]
    /\ UNCHANGED <<mainPc, nextPkg, validated, valErr, targetName, vers,
                   versionErrors, report, resultsClosed, rpc, table, counts, rendered>>
    /\ UNCHANGED <<inputVars, seqVars, logVars, fetchVars, uploadVars, validVars, registryVars, cmdVars,
                   typedVars, exportVars>>

\* wg.Wait() returns: every worker has called wg.Done()
WorkersJoinedNoWait == TRUE

WorkersJoined == wg = 0

\* wg.Wait(); close(results)
MainClose ==
    /\ mode \in ConcurrentModes
    /\ mainPc = "loop"
    /\ nextPkg > Len(packages)
    /\ WorkersJoined
    /\ resultsClosed' = TRUE
    /\ mainPc' = "closed"
    /\ UNCHANGED <<nextPkg, sem, wg, wpc, validated, valErr, targetName, vers,
                   versionErrors, report, rpc, table, counts, rendered>>
    /\ UNCHANGED <<inputVars, seqVars, logVars, fetchVars, uploadVars, validVars, registryVars, cmdVars,
                   typedVars, exportVars>>

\* progressbar.Stop(); return
MainReturn ==
    /\ mode \in ConcurrentModes
    /\ mainPc = "closed"
    /\ mainPc' = "returned"
    /\ UNCHANGED <<nextPkg, sem, wg, wpc, validated, valErr, targetName, vers,
                   versionErrors, report, resultsClosed, rpc, table, counts, rendered>>
    /\ UNCHANGED <<inputVars, seqVars, logVars, fetchVars, uploadVars, validVars, registryVars, cmdVars,
                   typedVars, exportVars>>

\* reportValidation: the range loop ends on the closed channel; the table and
\* the three counts are rendered
Render ==
    /\ mode \in ConcurrentModes
    /\ rpc = "recv"
    /\ resultsClosed
    /\ rendered' = [drawn |-> TRUE, rows |-> table, counts |-> counts]
    /\ rpc' = "done"
    /\ UNCHANGED <<mainPc, nextPkg, sem, wg, wpc, validated, valErr, targetName, vers,
                   versionErrors, report, resultsClosed, table, counts>>
    /\ UNCHANGED <<inputVars, seqVars, logVars, fetchVars, uploadVars, validVars, registryVars, cmdVars,
                   typedVars, exportVars>>

ConcNext ==
    \/ MainSpawn
    \/ \E i \in PkgIdx : Validate(i)
    \/ \E i \in PkgIdx : \E j \in VerIdx(i) : Download(i, j)
    \/ \E i \in PkgIdx : \E j \in VerIdx(i) : Upload(i, j)
    \/ \E i \in PkgIdx : SendFailed(i)
    \/ \E i \in PkgIdx : CollectAndSend(i)
    \/ \E i \in PkgIdx : Release(i)
    \/ MainClose
    \/ MainReturn
    \/ Render

-----------------------------------------------------------------------------
(* pkg/sync: the package loop of SyncPackages *)

\* the loop moves to the next package
SeqNextPackage ==
    /\ si' = si + 1
    /\ sj' = 0
    /\ spc' = "validate"

\* the version loop moves past version j of the current package
SeqNextVersion ==
    IF sj < Len(packages[si].versions)
    THEN /\ sj' = sj + 1
         /\ spc' = "download"
         /\ si' = si
    ELSE /\ sj' = sj
         /\ spc' = "visibility"
         /\ si' = si

\* `if err := pkg.ValidatePackage(&pkg); err != nil { ...; continue }`
SeqValidationSkips(err) == err # NoErr

\* ValidatePackage; on an error the package is skipped, else the target name
\* is resolved
SeqValidate ==
    /\ mode = "sequential"
    /\ spc = "validate"
    /\ si <= Len(packages)
    /\ sValidated' = [sValidated EXCEPT ![si] = @ + 1]
    /\ LET err == ValidatePackage(packages[si]) IN
        /\ sValErr' = [sValErr EXCEPT ![si] = err]
        /\ IF SeqValidationSkips(err)
           THEN /\ SeqNextPackage
                /\ UNCHANGED <<sTarget, mappings>>
           ELSE /\ sTarget' = getTargetPackageName(packages[si].name)
                /\ mappings' = MappingsAfterLookup(mappings, packages[si].name)
                /\ spc' = "exists"
                /\ UNCHANGED <<si, sj>>
    /\ UNCHANGED sLog
    /\ UNCHANGED <<mode, packages, skipExisting, concVars, logVars, fetchVars, uploadVars, validVars, registryVars, cmdVars,
                   typedVars, exportVars>>

\* `exists && skipExisting`
SkipsPackageWheneverExists(exists) == exists

SkipsPackage(exists) == exists /\ skipExisting

\* `if err != nil { log.Printf(...); continue }` after PackageExists
ProbeErrorIgnored(res) == FALSE

ProbeErrorSkips(res) == res = "err"

\* targetAPI.PackageExists: an error skips the package; so does an existing
\* package when skip-existing is set
SeqExists ==
    /\ mode = "sequential"
    /\ spc = "exists"
    /\ \E res \in {"yes", "no", "err"} :
        /\ probesExist' = probesExist \cup {[idx |-> si, name |-> sTarget, answer |-> res]}
        /\ IF ProbeErrorSkips(res) \/ SkipsPackage(res = "yes")
           THEN SeqNextPackage
           ELSE /\ sj' = 0
                /\ si' = si
                /\ spc' = "versions"
    /\ UNCHANGED <<sTarget, sValidated, sValErr, sLog>>
    /\ UNCHANGED <<inputVars, concVars, downloads, uploads, metas, visibs, fetchVars, uploadVars, validVars, registryVars, cmdVars,
                   typedVars, exportVars>>

\* `for _, version := range pkg.Versions`: the next version or the end of the range
SeqVersions ==
    /\ mode = "sequential"
    /\ spc = "versions"
    /\ SeqNextVersion
    /\ UNCHANGED <<sTarget, sValidated, sValErr, sLog>>
    /\ UNCHANGED <<inputVars, concVars, logVars, fetchVars, uploadVars, validVars, registryVars, cmdVars,
                   typedVars, exportVars>>

\* `continue` after a failed download or upload: on to the next version
AfterVersionFailureBreaks == "visibility"

AfterVersionFailure == "versions"

\* sourceAPI.DownloadPackageVersion(sourceOrg, pkg.Name, version.Name)
SeqDownload ==
    /\ mode = "sequential"
    /\ spc = "download"
    /\ downloads' = downloads \cup
          {[idx |-> si, name |-> packages[si].name, ver |-> packages[si].versions[sj].name]}
    /\ \E ok \in BOOLEAN :
        /\ spc' = IF ok THEN "upload" ELSE AfterVersionFailure
        /\ sLog' = Append(sLog, [op |-> "download", idx |-> si, j |-> sj, ok |-> ok])
    /\ UNCHANGED <<si, sj, sTarget, sValidated, sValErr>>
    /\ UNCHANGED <<inputVars, concVars, uploads, metas, visibs, probesExist, fetchVars, uploadVars, validVars, registryVars, cmdVars,
                   typedVars, exportVars>>

\* targetAPI.UploadPackageVersion(targetOrg, targetName, version.Name, files)
SeqUpload ==
    /\ mode = "sequential"
    /\ spc = "upload"
    /\ uploads' = uploads \cup
          {[idx |-> si, name |-> sTarget, ver |-> packages[si].versions[sj].name]}
    /\ \E ok \in BOOLEAN :
        /\ spc' = IF ok THEN "metadata" ELSE AfterVersionFailure
        /\ sLog' = Append(sLog, [op |-> "upload", idx |-> si, j |-> sj, ok |-> ok])
    /\ UNCHANGED <<si, sj, sTarget, sValidated, sValErr>>
    /\ UNCHANGED <<inputVars, concVars, downloads, metas, visibs, probesExist, fetchVars, uploadVars, validVars, registryVars, cmdVars,
                   typedVars, exportVars>>

\* targetAPI.UpdatePackageMetadata(targetOrg, targetName, version.Name, ...):
\* its error is only logged
SeqMetadata ==
    /\ mode = "sequential"
    /\ spc = "metadata"
    /\ metas' = metas \cup
          {[idx |-> si, name |-> sTarget, ver |-> packages[si].versions[sj].name]}
    /\ spc' = "versions"
    /\ UNCHANGED <<si, sj, sTarget, sValidated, sValErr, sLog>>
    /\ UNCHANGED <<inputVars, concVars, downloads, uploads, visibs, probesExist, fetchVars, uploadVars, validVars, registryVars, cmdVars,
                   typedVars, exportVars>>

\* targetAPI.UpdatePackageVisibility(targetOrg, targetName, pkg.Visibility):
\* its error is only logged
SeqVisibility ==
    /\ mode = "sequential"
    /\ spc = "visibility"
    /\ visibs' = visibs \cup {[idx |-> si, name |-> sTarget]}
    /\ SeqNextPackage
    /\ UNCHANGED <<sTarget, sValidated, sValErr, sLog>>
    /\ UNCHANGED <<inputVars, concVars, downloads, uploads, metas, probesExist, fetchVars, uploadVars, validVars, registryVars, cmdVars,
                   typedVars, exportVars>>

\* the range over packages is exhausted: progressbar.Stop, spinner.Success
SeqFinish ==
    /\ mode = "sequential"
    /\ spc = "validate"
    /\ si > Len(packages)
    /\ spc' = "done"
    /\ UNCHANGED <<si, sj, sTarget, sValidated, sValErr, sLog>>
    /\ UNCHANGED <<inputVars, concVars, logVars, fetchVars, uploadVars, validVars, registryVars, cmdVars,
                   typedVars, exportVars>>

SeqNext ==
    \/ SeqValidate
    \/ SeqExists
    \/ SeqVersions
    \/ SeqDownload
    \/ SeqUpload
    \/ SeqMetadata
    \/ SeqVisibility
    \/ SeqFinish

-----------------------------------------------------------------------------
(* pkg/api: the server side of the catalog query *)

NoCursor == <<>>
EndCursor(k) == <<k>>

\* the page a cursor selects: the first page without a cursor, else the page
\* after the one that handed the cursor out
PageOf(cursor) == IF cursor = NoCursor THEN 1 ELSE cursor[1] + 1

ServerNodes(k) ==
    IF k \in DOMAIN pages
    THEN [n \in 1..pages[k] |->
            [ID |-> <<k, n>>, Name |-> <<"pkg", k, n>>, PackageType |-> "container"]]
    ELSE <<>>

\* the response to a page request: nodes and pageInfo{endCursor, hasNextPage}
ServerResponse(cursor) ==
    LET k == PageOf(cursor) IN
    [Nodes |-> ServerNodes(k),
     HasNextPage |-> k < Len(pages),
     EndCursor |-> EndCursor(k)]

RECURSIVE ConcatPages(_)
ConcatPages(k) == IF k = 0 THEN <<>> ELSE ConcatPages(k - 1) \o ServerNodes(k)

-----------------------------------------------------------------------------
(* pkg/api: RateLimitAwareGraphQLClient.Query and GetOrganizationPackages *)

\* Package{ID, Name, PackageType, ...} built from a node
NodeToPackage(node) ==
    [ID |-> node.ID, Name |-> node.Name, PackageType |-> node.PackageType]

\* `return nil, fmt.Errorf(...)`: what is returned beside the error
ResultOnErrorPartial(accumulated) == accumulated

ResultOnError(accumulated) == <<>>

\* GetOrganizationPackages returns the error of Query, wrapped
FetchFails ==
    /\ fetchErr' = "failed to query packages"
    /\ fetchResult' = ResultOnError(acc)
    /\ fpc' = "done"

\* the reset times a probe may declare; Query reads ResetAt only when
\* Remaining is 0, so one value stands for all when quota is left
ResetTimes(remaining) == IF remaining = 0 THEN 0..MaxTime ELSE {MaxTime}

\* the rate-limit probe: c.client.Query(ctx, &rateLimitQuery, nil)
Probe ==
    /\ mode = "fetch"
    /\ fpc = "probe"
    /\ \/ /\ FetchFails
          /\ UNCHANGED <<lastProbe, sleptSince, zeroResets, zeroProbes, probesSince>>
       \/ \E remaining \in {0, 1} : \E resetAt \in ResetTimes(remaining) :
            /\ remaining = 0 => zeroProbes < MaxZeroProbes
            /\ lastProbe' = [Remaining |-> remaining, ResetAt |-> resetAt]
            /\ probesSince' = probesSince + 1
            /\ sleptSince' = FALSE
            /\ IF remaining > 0
               THEN /\ fpc' = "page"
                    /\ UNCHANGED <<zeroResets, zeroProbes>>
               ELSE /\ fpc' = "sleep"
                    /\ zeroResets' = zeroResets \cup {resetAt}
                    /\ zeroProbes' = zeroProbes + 1
            /\ UNCHANGED <<fetchErr, fetchResult>>
    /\ UNCHANGED <<pages, after, acc, now, requests>>
    /\ UNCHANGED <<inputVars, concVars, seqVars, logVars, uploadVars, validVars, registryVars, cmdVars,
                   typedVars, exportVars>>

\* the clock after time.Sleep(time.Until(resetAt)): a reset time in the past
\* gives a non-positive duration and Sleep returns at once
SleepUntilNoWait(t, resetAt) == t

SleepUntil(t, resetAt) == IF resetAt > t THEN resetAt ELSE t

\* remaining = 0: sleep until ResetAt, then probe again
Sleep ==
    /\ mode = "fetch"
    /\ fpc = "sleep"
    /\ now' = SleepUntil(now, lastProbe.ResetAt)
    /\ sleptSince' = TRUE
    /\ fpc' = "probe"
    /\ UNCHANGED <<pages, after, acc, fetchResult, fetchErr, lastProbe, zeroResets,
                   zeroProbes, probesSince, requests>>
    /\ UNCHANGED <<inputVars, concVars, seqVars, logVars, uploadVars, validVars, registryVars, cmdVars,
                   typedVars, exportVars>>

\* variables["after"] for the next request
NextCursorKept(current, endCursor) == current

NextCursor(current, endCursor) == endCursor

\* remaining > 0: the page request c.client.Query(ctx, q, variables), and what
\* GetOrganizationPackages does with its response
PageRequest ==
    /\ mode = "fetch"
    /\ fpc = "page"
    /\ requests' = Append(requests,
          [cursor |-> after, at |-> now, probes |-> probesSince,
           remaining |-> lastProbe.Remaining, slept |-> sleptSince,
           resets |-> zeroResets])
    /\ probesSince' = 0
    /\ \/ /\ FetchFails
          /\ UNCHANGED <<after, acc>>
       \/ LET resp == ServerResponse(after)
              grown == acc \o [n \in DOMAIN resp.Nodes |-> NodeToPackage(resp.Nodes[n])]
          IN  /\ acc' = grown
              /\ IF ~resp.HasNextPage
                 THEN /\ fetchResult' = grown
                      /\ fpc' = "done"
                      /\ UNCHANGED after
                 ELSE /\ after' = NextCursor(after, resp.EndCursor)
                      /\ fpc' = "probe"
                      /\ UNCHANGED fetchResult
              /\ UNCHANGED fetchErr
    /\ UNCHANGED <<pages, now, lastProbe, sleptSince, zeroResets, zeroProbes>>
    /\ UNCHANGED <<inputVars, concVars, seqVars, logVars, uploadVars, validVars, registryVars, cmdVars,
                   typedVars, exportVars>>

FetchNext ==
    \/ Probe
    \/ Sleep
    \/ PageRequest

-----------------------------------------------------------------------------
(* pkg/api: UploadManager.retryableUpload and ContainerUpload *)

\* what ContainerUpload returns, as records: nothing yet, nil, ctx.Err()
Pending == [msg |-> "pending"]
UploadOk == [msg |-> NoErr]
CtxErr == [msg |-> "context canceled"]
NoManifest == [generated |-> FALSE]

\* the files a container version may hold: three layer archives, two of them
\* with the same content and so the same sha256 digest, and a file that is
\* no layer
FilePool ==
    {[name |-> "l1", ext |-> ".tar", digest |-> "d1"],
     [name |-> "l2", ext |-> ".gz", digest |-> "d2"],
     [name |-> "l3", ext |-> ".tgz", digest |-> "d1"],
     [name |-> "config", ext |-> ".json", digest |-> "d3"]}

\* the digests of the layer files
Digests == {f.digest : f \in FilePool}

\* the file lists of at most maxLen files
FileLists(maxLen) == UNION {[1..n -> FilePool] : n \in 0..maxLen}

FileIdx == 1..Len(opts.Files)

\* validateContainerUpload: organization, package name and version are required
validateContainerUpload(o) ==
    IF o.Organization = "" THEN "organization is required"
    ELSE IF o.PackageName = "" THEN "package name is required"
    ELSE IF o.Version = "" THEN "version is required"
    ELSE NoErr

\* isContainerLayer: the extension is .tar, .gz or .tgz
isContainerLayer(file) == file.ext \in {".tar", ".gz", ".tgz"}

\* ContainerUpload: validateContainerUpload, its error wrapped and returned
UploadValidate ==
    /\ mode = "upload"
    /\ upc = "validate"
    /\ IF validateContainerUpload(opts) # NoErr
       THEN /\ upResult' = [msg |-> "container validation failed",
                             cause |-> validateContainerUpload(opts)]
            /\ upc' = "done"
       ELSE /\ upc' = "spawn"
            /\ UNCHANGED upResult
    /\ UNCHANGED <<opts, ctxDone, nextFile, lsem, lpc, layerCalls, layerResults,
                   layerErrors, manifest, attempt, fnCalls, lastErr, waits>>
    /\ UNCHANGED <<inputVars, concVars, seqVars, logVars, fetchVars, validVars, registryVars, cmdVars,
                   typedVars, exportVars>>

\* `for _, file := range opts.Files`: a file that is no layer is passed over;
\* for a layer a token is acquired and the goroutine started
UploadSpawn ==
    /\ mode = "upload"
    /\ upc = "spawn"
    /\ nextFile <= Len(opts.Files)
    /\ IF ~isContainerLayer(opts.Files[nextFile])
       THEN UNCHANGED <<lsem, lpc>>
       ELSE /\ lsem < concurrency
            /\ lsem' = lsem + 1
            /\ lpc' = [lpc EXCEPT ![nextFile] = "probe"]
    /\ nextFile' = nextFile + 1
    /\ UNCHANGED <<opts, ctxDone, upc, layerCalls, layerResults, layerErrors,
                   manifest, attempt, fnCalls, lastErr, waits, upResult>>
    /\ UNCHANGED <<inputVars, concVars, seqVars, logVars, fetchVars, validVars, registryVars, cmdVars,
                   typedVars, exportVars>>

\* checkExists(baseURL/blobs/digest): HEAD answers 200 for a blob the target holds
checkExists(digest) == digest \in blobs

\* layer goroutine: the single call of uploadContainerLayer starts: stat, open
\* and hash the file, then probe the target for the digest.  An error of any
\* of these goes to layerErrors; a digest the target holds goes to
\* layerResults without an upload; else the upload session follows.  The
\* deferred functions release the token and the WaitGroup when the call ends.
LayerProbe(k) ==
    /\ mode = "upload"
    /\ lpc[k] = "probe"
    /\ layerCalls' = [layerCalls EXCEPT ![k] = @ + 1]
    /\ \/ /\ layerErrors' = Append(layerErrors, [msg |-> "layer upload failed", file |-> k])
          /\ lsem' = lsem - 1
          /\ lpc' = [lpc EXCEPT ![k] = "done"]
          /\ UNCHANGED layerResults
       \/ IF checkExists(opts.Files[k].digest)
          THEN /\ layerResults' = Append(layerResults, opts.Files[k].digest)
               /\ lsem' = lsem - 1
               /\ lpc' = [lpc EXCEPT ![k] = "done"]
               /\ UNCHANGED layerErrors
          ELSE /\ lpc' = [lpc EXCEPT ![k] = "put"]
               /\ UNCHANGED <<lsem, layerResults, layerErrors>>
    /\ UNCHANGED <<opts, ctxDone, upc, nextFile, manifest, attempt, fnCalls,
                   lastErr, waits, upResult>>
    /\ UNCHANGED <<inputVars, concVars, seqVars, logVars, fetchVars, validVars, registryVars, cmdVars,
                   typedVars, exportVars>>

\* layer goroutine: the rest of uploadContainerLayer: the upload session is
\* started and the layer is PUT with its digest.  On 201 Created the target
\* holds the blob and the digest goes to layerResults; any failure goes to
\* layerErrors.
LayerPut(k) ==
    /\ mode = "upload"
    /\ lpc[k] = "put"
    /\ \E ok \in BOOLEAN :
        IF ok
        THEN /\ blobs' = blobs \cup {opts.Files[k].digest}
             /\ puts' = Append(puts, opts.Files[k].digest)
             /\ layerResults' = Append(layerResults, opts.Files[k].digest)
             /\ UNCHANGED layerErrors
        ELSE /\ layerErrors' = Append(layerErrors, [msg |-> "layer upload failed", file |-> k])
             /\ UNCHANGED <<layerResults, blobs, puts>>
    /\ lsem' = lsem - 1
    /\ lpc' = [lpc EXCEPT ![k] = "done"]
    /\ UNCHANGED <<opts, ctxDone, upc, nextFile, layerCalls, manifest, attempt, fnCalls,
                   lastErr, waits, upResult>>
    /\ UNCHANGED <<inputVars, concVars, seqVars, logVars, fetchVars, validVars, cmdVars,
                   typedVars, exportVars>>

\* generateContainerManifest: one layer object per digest, in the order given
generateContainerManifest(layers) == [generated |-> TRUE, Layers |-> layers]

\* wg.Wait(): every layer goroutine that was started has run its deferred
\* wg.Done()
WaitGroupNoWait == TRUE

WaitGroupDone == \A k \in FileIdx : lpc[k] \notin {"probe", "put"}

\* wg.Wait(); close both channels; the first layer error is returned, else
\* the manifest is generated from the collected digests
UploadJoin ==
    /\ mode = "upload"
    /\ upc = "spawn"
    /\ nextFile > Len(opts.Files)
    /\ WaitGroupDone
    /\ IF Len(layerErrors) > 0
       THEN /\ upResult' = Head(layerErrors)
            /\ upc' = "done"
            /\ UNCHANGED manifest
       ELSE /\ manifest' = generateContainerManifest(layerResults)
            /\ upc' = "retry"
            /\ UNCHANGED upResult
    /\ UNCHANGED <<opts, ctxDone, nextFile, lsem, lpc, layerCalls, layerResults,
                   layerErrors, attempt, fnCalls, lastErr, waits>>
    /\ UNCHANGED <<inputVars, concVars, seqVars, logVars, fetchVars, validVars, registryVars, cmdVars,
                   typedVars, exportVars>>

\* `for attempt := 0; attempt < m.maxRetries; attempt++`
MoreAttemptsOneMore(a) == a <= maxRetries

MoreAttempts(a) == a < maxRetries

\* what retryableUpload keeps of a failed attempt
KeepLastErrFirst(previous, err) == IF previous = NoErr THEN err ELSE previous

KeepLastErr(previous, err) == err

\* retryableUpload: one call of fn (here uploadContainerManifest); nil ends
\* the loop with nil, an error is kept in lastErr and the backoff wait begins
RetryAttempt ==
    /\ mode = "upload"
    /\ upc = "retry"
    /\ MoreAttempts(attempt)
    /\ \E ok \in BOOLEAN :
        /\ fnCalls' = Append(fnCalls, ok)
        /\ IF ok
           THEN /\ upResult' = UploadOk
                /\ upc' = "done"
                /\ UNCHANGED lastErr
           ELSE /\ lastErr' = KeepLastErr(lastErr, ErrOfCall(Len(fnCalls) + 1))
                /\ upc' = "backoff"
                /\ UNCHANGED upResult
    /\ UNCHANGED <<opts, ctxDone, nextFile, lsem, lpc, layerCalls, layerResults,
                   layerErrors, manifest, attempt, waits>>
    /\ UNCHANGED <<inputVars, concVars, seqVars, logVars, fetchVars, validVars, registryVars, cmdVars,
                   typedVars, exportVars>>

\* `m.retryDelay * time.Duration(attempt+1)`, in units of retryDelay
BackoffFactorConstant(a) == 1

BackoffFactor(a) == a + 1

\* `case <-time.After(m.retryDelay * time.Duration(attempt+1)): continue`
BackoffElapsed ==
    /\ mode = "upload"
    /\ upc = "backoff"
    /\ ~ctxDone
    /\ waits' = Append(waits, BackoffFactor(attempt))
    /\ attempt' = attempt + 1
    /\ upc' = "retry"
    /\ UNCHANGED <<opts, ctxDone, nextFile, lsem, lpc, layerCalls, layerResults,
                   layerErrors, manifest, fnCalls, lastErr, upResult>>
    /\ UNCHANGED <<inputVars, concVars, seqVars, logVars, fetchVars, validVars, registryVars, cmdVars,
                   typedVars, exportVars>>

\* where retryableUpload reads ctx.Done(): in the select that follows a
\* failed call of fn, nowhere else
ReadsContextAtLoopHead(pc) == pc \in {"retry", "backoff"}

ReadsContext(pc) == pc = "backoff"

\* `case <-ctx.Done(): return ctx.Err()`
BackoffCancelled ==
    /\ mode = "upload"
    /\ ReadsContext(upc)
    /\ ctxDone
    /\ upResult' = CtxErr
    /\ upc' = "done"
    /\ UNCHANGED <<opts, ctxDone, nextFile, lsem, lpc, layerCalls, layerResults,
                   layerErrors, manifest, attempt, fnCalls, lastErr, waits>>
    /\ UNCHANGED <<inputVars, concVars, seqVars, logVars, fetchVars, validVars, registryVars, cmdVars,
                   typedVars, exportVars>>

\* the error returned when the loop ends without a nil
ExhaustedError(err) ==
    [msg |-> "upload failed after attempts", attempts |-> maxRetries, cause |-> err]

\* the loop condition fails: `return fmt.Errorf("upload failed after %d
\* attempts: %v", m.maxRetries, lastErr)`
RetryExhausted ==
    /\ mode = "upload"
    /\ upc = "retry"
    /\ ~MoreAttempts(attempt)
    /\ upResult' = ExhaustedError(lastErr)
    /\ upc' = "done"
    /\ UNCHANGED <<opts, ctxDone, nextFile, lsem, lpc, layerCalls, layerResults,
                   layerErrors, manifest, attempt, fnCalls, lastErr, waits>>
    /\ UNCHANGED <<inputVars, concVars, seqVars, logVars, fetchVars, validVars, registryVars, cmdVars,
                   typedVars, exportVars>>

\* the caller cancels the context while ContainerUpload runs
Cancel ==
    /\ mode = "upload"
    /\ upc # "done"
    /\ ~ctxDone
    /\ ctxDone' = TRUE
    /\ UNCHANGED <<opts, upc, nextFile, lsem, lpc, layerCalls, layerResults,
                   layerErrors, manifest, attempt, fnCalls, lastErr, waits, upResult>>
    /\ UNCHANGED <<inputVars, concVars, seqVars, logVars, fetchVars, validVars, registryVars, cmdVars,
                   typedVars, exportVars>>

UploadNext ==
    \/ UploadValidate
    \/ UploadSpawn
    \/ \E k \in FileIdx : LayerProbe(k)
    \/ \E k \in FileIdx : LayerPut(k)
    \/ UploadJoin
    \/ RetryAttempt
    \/ BackoffElapsed
    \/ BackoffCancelled
    \/ RetryExhausted
    \/ Cancel

-----------------------------------------------------------------------------
(* pkg/sync: LoadMappings.  A mapping file is absent (no file given),       *)
(* unreadable, or holds the records encoding/csv parses from it; a record   *)
(* is its sequence of fields.                                               *)

NoFile == [kind |-> "none", records |-> <<>>]
Unreadable == [kind |-> "unreadable", records |-> <<>>]
CsvFile(records) == [kind |-> "csv", records |-> records]

NoLoad == [done |-> FALSE]

\* the names a mapping file mentions
SourceNames == {"pkgA", "pkgB"}

\* the records of at most maxFields fields: the first two fields are names,
\* further fields are extra columns
CsvRecords(maxFields) ==
    UNION {{[k \in 1..n |-> IF k <= 2 THEN f[k] ELSE "extra"] :
              f \in [1..(IF n < 2 THEN n ELSE 2) -> SourceNames]} : n \in 1..maxFields}

\* the files of at most maxRecords records
CsvFiles(maxRecords, maxFields) ==
    {CsvFile(r) : r \in UNION {[1..n -> CsvRecords(maxFields)] : n \in 0..maxRecords}}

\* csv.Reader.ReadAll with the reader's defaults (FieldsPerRecord = 0): every
\* record must have as many fields as the first one, else ErrFieldCount
ReadAll(records) ==
    IF \E k \in DOMAIN records : Len(records[k]) # Len(records[1])
    THEN [err |-> "wrong number of fields", records |-> <<>>]
    ELSE [err |-> NoErr, records |-> records]

\* `records[1:]`
AllRecords(records) == records

SkipHeader(records) == Tail(records)

\* `for _, record := range ...: if len(record) >= 2 { s.mappings[record[0]] = record[1] }`
RECURSIVE AssignRecords(_, _)
AssignRecords(m, records) ==
    IF records = <<>> THEN m
    ELSE LET record == Head(records)
             assigned == IF Len(record) >= 2
                         THEN [n \in DOMAIN m \cup {record[1]} |->
                                 IF n = record[1] THEN record[2] ELSE m[n]]
                         ELSE m
         IN  AssignRecords(assigned, Tail(records))

\* LoadMappings(mappingFile) on the table m: what it returns, whether it
\* panics, and the table afterwards.  `records[1:]` of an empty slice is out
\* of range and panics.
LoadMappings(m, file) ==
    IF file.kind = "none"
    THEN [done |-> TRUE, err |-> NoErr, panics |-> FALSE, mappings |-> m]
    ELSE IF file.kind = "unreadable"
    THEN [done |-> TRUE, err |-> "failed to open mapping file", panics |-> FALSE,
          mappings |-> m]
    ELSE IF ReadAll(file.records).err # NoErr
    THEN [done |-> TRUE, err |-> "failed to read mapping file", panics |-> FALSE,
          mappings |-> m]
    ELSE IF Len(file.records) = 0
    THEN [done |-> TRUE, err |-> NoErr, panics |-> TRUE, mappings |-> m]
    ELSE [done |-> TRUE, err |-> NoErr, panics |-> FALSE,
          mappings |-> AssignRecords(m, SkipHeader(ReadAll(file.records).records))]

\* one call of LoadMappings on a fresh PackageSync
LoadMappingsCall ==
    /\ mode = "loadMappings"
    /\ ~loadOut.done
    /\ loadOut' = LoadMappings(mappings, mappingFile)
    /\ mappings' = LoadMappings(mappings, mappingFile).mappings
    /\ UNCHANGED <<mode, packages, skipExisting>>
    /\ UNCHANGED <<argsOk, mappingFile, cpc, topFailure, exitCode>>
    /\ UNCHANGED <<concVars, seqVars, logVars, fetchVars, uploadVars, validVars, registryVars,
                   typedVars, exportVars>>

-----------------------------------------------------------------------------
(* cmd: Execute, the sync command and SyncPackages up to its package loop *)

NotExited == "running"

\* Execute: rootCmd.Execute() fails on a command line cobra rejects (unknown
\* command, missing required flag) and Execute exits with status 1;
\* otherwise syncCmd.Run is called
CmdExecute ==
    /\ mode = "command"
    /\ cpc = "execute"
    /\ IF ~argsOk
       THEN /\ exitCode' = "1"
            /\ cpc' = "exited"
       ELSE /\ cpc' = "newSync"
            /\ UNCHANGED exitCode
    /\ UNCHANGED <<inputVars, argsOk, mappingFile, loadOut, topFailure>>
    /\ UNCHANGED <<concVars, seqVars, logVars, fetchVars, uploadVars, validVars, registryVars,
                   typedVars, exportVars>>

\* SyncPackages: NewPackageSync builds the two API clients; NewAPI ends the
\* process through log.Fatalf when the rate limiter cannot be created
CmdNewSync ==
    /\ mode = "command"
    /\ cpc = "newSync"
    /\ \/ /\ topFailure' = "Failed to create rate limiter"
          /\ exitCode' = "1"
          /\ cpc' = "exited"
       \/ /\ cpc' = "load"
          /\ UNCHANGED <<topFailure, exitCode>>
    /\ UNCHANGED <<inputVars, argsOk, mappingFile, loadOut>>
    /\ UNCHANGED <<concVars, seqVars, logVars, fetchVars, uploadVars, validVars, registryVars,
                   typedVars, exportVars>>

\* what SyncPackages does after spinner.Fail: `return`
AfterTopFailure == "returned"

\* SyncPackages: `if mappingFile != "" { if err := sync.LoadMappings(...); err
\* != nil { spinner.Fail(...); return } }`; a panic of LoadMappings ends the
\* process with status 2
CmdLoadMappings ==
    /\ mode = "command"
    /\ cpc = "load"
    /\ IF mappingFile.kind = "none"
       THEN /\ cpc' = "fetch"
            /\ UNCHANGED <<loadOut, mappings, topFailure, exitCode>>
       ELSE LET out == LoadMappings(mappings, mappingFile) IN
            /\ loadOut' = out
            /\ mappings' = out.mappings
            /\ IF out.panics
               THEN /\ topFailure' = "panic: slice bounds out of range"
                    /\ exitCode' = "2"
                    /\ cpc' = "exited"
               ELSE IF out.err # NoErr
               THEN /\ topFailure' = "Failed to load mappings"
                    /\ cpc' = AfterTopFailure
                    /\ UNCHANGED exitCode
               ELSE /\ cpc' = "fetch"
                    /\ UNCHANGED <<topFailure, exitCode>>
    /\ UNCHANGED <<mode, packages, skipExisting, argsOk, mappingFile>>
    /\ UNCHANGED <<concVars, seqVars, logVars, fetchVars, uploadVars, validVars, registryVars,
                   typedVars, exportVars>>

\* SyncPackages: GetOrganizationPackages; its error is reported and
\* SyncPackages returns; else the package loop starts over the fetched list
CmdFetch ==
    /\ mode = "command"
    /\ cpc = "fetch"
    /\ \/ /\ topFailure' = "Failed to fetch source packages"
          /\ cpc' = AfterTopFailure
          /\ UNCHANGED mode
       \/ /\ cpc' = "loop"
          /\ mode' = "sequential"
          /\ UNCHANGED topFailure
    /\ UNCHANGED <<packages, mappings, skipExisting, argsOk, mappingFile, loadOut, exitCode>>
    /\ UNCHANGED <<concVars, seqVars, logVars, fetchVars, uploadVars, validVars, registryVars,
                   typedVars, exportVars>>

\* the package loop of SyncPackages has ended: SyncPackages returns
CmdLoopDone ==
    /\ mode = "sequential"
    /\ cpc = "loop"
    /\ spc = "done"
    /\ cpc' = "returned"
    /\ UNCHANGED <<inputVars, argsOk, mappingFile, loadOut, topFailure, exitCode>>
    /\ UNCHANGED <<concVars, seqVars, logVars, fetchVars, uploadVars, validVars, registryVars,
                   typedVars, exportVars>>

\* SyncPackages has returned: Run returns, rootCmd.Execute returns nil,
\* Execute returns and the process ends with status 0
CmdExit ==
    /\ cpc = "returned"
    /\ exitCode' = "0"
    /\ cpc' = "exited"
    /\ UNCHANGED <<inputVars, argsOk, mappingFile, loadOut, topFailure>>
    /\ UNCHANGED <<concVars, seqVars, logVars, fetchVars, uploadVars, validVars, registryVars,
                   typedVars, exportVars>>

CmdNext ==
    \/ CmdExecute
    \/ CmdNewSync
    \/ CmdLoadMappings
    \/ CmdFetch
    \/ CmdLoopDone
    \/ CmdExit

-----------------------------------------------------------------------------
(* Initial states and specifications *)

ConcIdle ==
    /\ mainPc = "loop"
    /\ nextPkg = 1
    /\ sem = 0
    /\ wg = 0
    /\ wpc = [i \in PkgIdx |-> "idle"]
    /\ validated = [i \in PkgIdx |-> 0]
    /\ valErr = [i \in PkgIdx |-> NoErr]
    /\ targetName = [i \in PkgIdx |-> NoName]
    /\ vers = [i \in PkgIdx |-> [j \in VerIdx(i) |-> IdleVersion]]
    /\ versionErrors = [i \in PkgIdx |-> <<>>]
    /\ report = [i \in PkgIdx |-> NoReport]
    /\ resultsClosed = FALSE
    /\ rpc = "recv"
    /\ table = <<>>
    /\ counts = [success |-> 0, failure |-> 0, partial |-> 0]
    /\ rendered = NoRender

SeqIdle ==
    /\ spc = "validate"
    /\ si = 1
    /\ sj = 0
    /\ sTarget = NoName
    /\ sValidated = [i \in PkgIdx |-> 0]
    /\ sValErr = [i \in PkgIdx |-> NoErr]
    /\ sLog = <<>>

LogsEmpty ==
    /\ downloads = {}
    /\ uploads = {}
    /\ metas = {}
    /\ visibs = {}
    /\ probesExist = {}

FetchIdle ==
    /\ fpc = "probe"
    /\ after = NoCursor
    /\ acc = <<>>
    /\ fetchResult = <<>>
    /\ fetchErr = NoErr
    /\ now = 0
    /\ lastProbe = [Remaining |-> 1, ResetAt |-> MaxTime]
    /\ sleptSince = FALSE
    /\ zeroResets = {}
    /\ zeroProbes = 0
    /\ probesSince = 0
    /\ requests = <<>>

UploadIdle ==
    /\ upc = "validate"
    /\ nextFile = 1
    /\ lsem = 0
    /\ lpc = [k \in FileIdx |-> "idle"]
    /\ layerCalls = [k \in FileIdx |-> 0]
    /\ layerResults = <<>>
    /\ layerErrors = <<>>
    /\ manifest = NoManifest
    /\ attempt = 0
    /\ fnCalls = <<>>
    /\ lastErr = NoErr
    /\ waits = <<>>
    /\ upResult = Pending
    /\ puts = <<>>

\* no command runs
CmdIdle ==
    /\ argsOk = TRUE
    /\ mappingFile = NoFile
    /\ cpc = "idle"
    /\ loadOut = NoLoad
    /\ topFailure = NoErr
    /\ exitCode = NotExited

\* no typed upload runs
TypedIdle ==
    /\ tpc = "find"
    /\ tfiles = <<>>
    /\ tsem = 0
    /\ uploadErrors = <<>>
    /\ tResult = Pending

\* no export runs
ExportIdle ==
    /\ eVersions = <<>>
    /\ eNext = 1
    /\ semaphore = 0
    /\ eg = <<>>
    /\ result = [complete |-> 0, failed |-> 0, totalSize |-> 0]
    /\ eTally = [complete |-> 0, failed |-> 0, totalSize |-> 0]
    /\ eReturned = FALSE

NoOpts == [Organization |-> "", PackageName |-> "", Version |-> "", Files |-> <<>>]

\* a sync run over a fetched package list, by either path
Init ==
    /\ mode \in {"concurrent", "sequential"}
    /\ packages \in PackageLists(MaxSize)
    /\ mappings \in MappingTables
    /\ skipExisting \in (IF mode = "sequential" THEN BOOLEAN ELSE {FALSE})
    /\ pages = <<>>
    /\ opts = NoOpts
    /\ ctxDone = FALSE
    /\ blobs = {}
    /\ vIn = NoIn
    /\ vOut = NoOut
    /\ ConcIdle /\ SeqIdle /\ LogsEmpty /\ FetchIdle /\ UploadIdle /\ CmdIdle
    /\ TypedIdle /\ ExportIdle

Next == ConcNext \/ SeqNext

Spec == Init /\ [][Next]_vars

\* processConcurrently over more packages than the token pool holds
InitMany ==
    /\ mode = "concurrent"
    /\ packages \in ManyLists(maxConcurrent + OverPool)
    /\ mappings = <<>>
    /\ skipExisting = FALSE
    /\ pages = <<>>
    /\ opts = NoOpts
    /\ ctxDone = FALSE
    /\ blobs = {}
    /\ vIn = NoIn
    /\ vOut = NoOut
    /\ ConcIdle /\ SeqIdle /\ LogsEmpty /\ FetchIdle /\ UploadIdle /\ CmdIdle
    /\ TypedIdle /\ ExportIdle

SpecMany == InitMany /\ [][ConcNext]_vars

\* one call of GetOrganizationPackages against a server holding `pages`
InitFetch ==
    /\ mode = "fetch"
    /\ packages = <<>>
    /\ mappings = <<>>
    /\ skipExisting = FALSE
    /\ pages \in UNION {[1..n -> 0..MaxNodes] : n \in 1..MaxPages}
    /\ opts = NoOpts
    /\ ctxDone = FALSE
    /\ blobs = {}
    /\ vIn = NoIn
    /\ vOut = NoOut
    /\ ConcIdle /\ SeqIdle /\ LogsEmpty /\ FetchIdle /\ UploadIdle /\ CmdIdle
    /\ TypedIdle /\ ExportIdle

\* The fetch is one sequential thread: whenever it has a next step it takes it.
SpecFetch == InitFetch /\ [][FetchNext]_vars /\ WF_vars(FetchNext)

\* the UploadOptions of one ContainerUpload call
UploadOptionsSet(maxLen) ==
    [Organization : {"", "org"}, PackageName : {"", "pkg"}, Version : {"", "v1"},
     Files : FileLists(maxLen)]

\* the layers an earlier version of the package may have left at the target
EarlierDigests == {"d1"}

\* one call of ContainerUpload, with a context that is live or already
\* cancelled, against a target that may hold layers of an earlier version
InitUpload ==
    /\ mode = "upload"
    /\ packages = <<>>
    /\ mappings = <<>>
    /\ skipExisting = FALSE
    /\ pages = <<>>
    /\ opts \in UploadOptionsSet(MaxFiles)
    /\ ctxDone \in BOOLEAN
    /\ blobs \in SUBSET EarlierDigests
    /\ vIn = NoIn
    /\ vOut = NoOut
    /\ ConcIdle /\ SeqIdle /\ LogsEmpty /\ FetchIdle /\ UploadIdle /\ CmdIdle
    /\ TypedIdle /\ ExportIdle

SpecUpload == InitUpload /\ [][UploadNext]_vars

\* the transfers of a run: a sync by either path, or one container upload
InitTransfer == Init \/ InitUpload

NextTransfer == Next \/ UploadNext

SpecTransfer == InitTransfer /\ [][NextTransfer]_vars

\* one call of a package-level rule, of a version-level rule or of
\* UploadPackageVersion
InitValidate ==
    /\ mode \in {"packageRule", "versionRule", "uploadCheck"}
    /\ packages = <<>>
    /\ mappings = <<>>
    /\ skipExisting = FALSE
    /\ pages = <<>>
    /\ opts = NoOpts
    /\ ctxDone = FALSE
    /\ blobs = {}
    /\ vIn \in CASE mode = "packageRule" ->
                      [ptype : TypeStrings, name : NamesUpTo(MaxNameLen), files : {{}}]
                 [] mode = "versionRule" ->
                      [ptype : TypeStrings, name : {<<"a">>},
                       files : FileSets(VersionFilePool, MaxVersionFiles)]
                 [] mode = "uploadCheck" ->
                      [ptype : TypeStrings, name : {<<"a">>},
                       files : UploadFileLists(MaxUploadFiles)]
    /\ vOut = NoOut
    /\ ConcIdle /\ SeqIdle /\ LogsEmpty /\ FetchIdle /\ UploadIdle /\ CmdIdle
    /\ TypedIdle /\ ExportIdle

SpecValidate == InitValidate /\ [][ValidateNext]_vars

\* one call of LoadMappings on the empty table NewPackageSync makes
InitMappings ==
    /\ mode = "loadMappings"
    /\ packages = <<>>
    /\ mappings = <<>>
    /\ skipExisting = FALSE
    /\ pages = <<>>
    /\ opts = NoOpts
    /\ ctxDone = FALSE
    /\ blobs = {}
    /\ vIn = NoIn
    /\ vOut = NoOut
    /\ argsOk = TRUE
    /\ mappingFile \in {Unreadable} \cup CsvFiles(MaxRecords, MaxFields)
    /\ cpc = "idle"
    /\ loadOut = NoLoad
    /\ topFailure = NoErr
    /\ exitCode = NotExited
    /\ ConcIdle /\ SeqIdle /\ LogsEmpty /\ FetchIdle /\ UploadIdle
    /\ TypedIdle /\ ExportIdle

SpecMappings == InitMappings /\ [][LoadMappingsCall]_vars

\* the mapping files of the command runs: none, one that cannot be opened,
\* an empty one, one whose records differ in length, and a header with a pair
CommandFiles ==
    {NoFile, Unreadable, CsvFile(<<>>),
     CsvFile(<<<<"pkgA">>, <<"pkgA", "pkgB">>>>),
     CsvFile(<<<<"pkgB", "pkgA">>, <<"pkgA", "pkgB">> >>)}

\* one run of the sync command; `packages` is the list the catalog fetch
\* returns when it succeeds
InitCommand ==
    /\ mode = "command"
    /\ packages \in PackageLists(MaxFetched)
    /\ mappings = <<>>
    /\ skipExisting \in BOOLEAN
    /\ pages = <<>>
    /\ opts = NoOpts
    /\ ctxDone = FALSE
    /\ blobs = {}
    /\ vIn = NoIn
    /\ vOut = NoOut
    /\ argsOk \in BOOLEAN
    /\ mappingFile \in CommandFiles
    /\ cpc = "execute"
    /\ loadOut = NoLoad
    /\ topFailure = NoErr
    /\ exitCode = NotExited
    /\ ConcIdle /\ SeqIdle /\ LogsEmpty /\ FetchIdle /\ UploadIdle
    /\ TypedIdle /\ ExportIdle

CommandNext == CmdNext \/ SeqNext

SpecCommand == InitCommand /\ [][CommandNext]_vars

\* the sync runs: a run of the command from its start, or a run of either
\* path over a fetched list with the mapping table as LoadMappings left it
InitRun == Init \/ InitCommand

RunNext == Next \/ CmdNext

SpecRun == InitRun /\ [][RunNext]_vars

-----------------------------------------------------------------------------
(* Properties of processConcurrently and SyncPackages *)

\* the rows of the aggregator's table that belong to package i
RowsOf(i) == {k \in DOMAIN table : table[k].PackageName = packages[i].name}

\* a version goroutine of package i is between its start and its Done
VersionRunning(i) == \E j \in VerIdx(i) : vers[i][j].pc \in {"download", "upload"}

\* what the mapping table says a source name becomes
Resolved(name) == IF name \in DOMAIN mappings THEN mappings[name] ELSE name

\* C1: for every package of the input list exactly one report is sent on
\* results: never two, one once the worker has passed its send, and the send
\* happens only after the package's validation has run and while none of its
\* version goroutines is still running.
C1_ExactlyOneReport ==
    mode = "concurrent" =>
        \A i \in PkgIdx :
            /\ Cardinality(RowsOf(i)) <= 1
            /\ RowsOf(i) # {} => validated[i] = 1 /\ ~VersionRunning(i)
            /\ RowsOf(i) # {} /\ valErr[i] = NoErr =>
                   \A j \in VerIdx(i) : vers[i][j].pc = "done"
            /\ wpc[i] \in {"release", "done"} => Cardinality(RowsOf(i)) = 1
            /\ mainPc \in {"closed", "returned"} => Cardinality(RowsOf(i)) = 1

\* C1 witness: the run is over for a package with two versions, one of which
\* failed, and for it one report was received.
C1_Witness ==
    /\ mode = "concurrent"
    /\ mainPc = "returned"
    /\ \E i \in PkgIdx :
        /\ Len(packages[i].versions) = 2
        /\ vers[i][1].failed /\ ~vers[i][2].failed /\ vers[i][2].pc = "done"
        /\ Cardinality(RowsOf(i)) = 1

\* the package workers that hold a token
Running == {i \in PkgIdx : wpc[i] \in {"validate", "waitVersions", "sendFailed", "release"}}

\* C2: in every reachable state at most 5 package workers are running (have
\* acquired a token and not yet released it).
C2_AtMostFiveRunning ==
    /\ Cardinality(Running) <= 5
    /\ sem = Cardinality(Running)

\* C2 witness: five workers run and the spawning loop still has a package
\* to start, which has to wait for a token.
C2_Witness ==
    /\ Cardinality(Running) = 5
    /\ nextPkg = 6
    /\ Len(packages) = 6
    /\ wpc[6] = "idle"

\* C3: a download or upload for a version of package P happens only after P's
\* validation has run exactly once and succeeded; a package whose validation
\* failed gets no download and no upload, in the concurrent and in the
\* sequential path.
C3_TransferOnlyAfterValidation ==
    /\ \A i \in PkgIdx : validated[i] <= 1 /\ sValidated[i] <= 1
    /\ \A r \in downloads \cup uploads :
        IF mode = "concurrent"
        THEN validated[r.idx] = 1 /\ valErr[r.idx] = NoErr
        ELSE sValidated[r.idx] = 1 /\ sValErr[r.idx] = NoErr
    /\ \A i \in PkgIdx :
        (valErr[i] # NoErr \/ sValErr[i] # NoErr) =>
            ~\E r \in downloads \cup uploads : r.idx = i

\* C3 witness: the sequential loop is over; a package with a version failed
\* validation and a later package was uploaded.
C3_Witness ==
    /\ mode = "sequential"
    /\ spc = "done"
    /\ \E i \in PkgIdx :
        /\ sValErr[i] # NoErr
        /\ Len(packages[i].versions) > 0
        /\ \E r \in uploads : r.idx > i

\* the number of versions of package i whose transfer failed
FailedVersions(i) == Cardinality({j \in VerIdx(i) : vers[i][j].failed})

\* C4 (as claimed): a package whose versions all failed (at least one
\* version, none succeeded) is reported Failed; Partial Success is reported
\* only when at least one version succeeded and at least one failed; a
\* package that fails validation is reported Failed with the validation error
\* as its error summary.
C4_AllFailedIsFailed ==
    mode = "concurrent" =>
        \A i \in PkgIdx : \A k \in RowsOf(i) :
            /\ valErr[i] # NoErr =>
                 table[k].Status = "Failed" /\ table[k].ErrorMessage = <<valErr[i]>>
            /\ (valErr[i] = NoErr /\ Len(packages[i].versions) > 0
                  /\ FailedVersions(i) = Len(packages[i].versions)) =>
                 table[k].Status = "Failed"
            /\ table[k].Status = "Partial Success" =>
                 /\ FailedVersions(i) > 0
                 /\ FailedVersions(i) < Len(packages[i].versions)

\* C5: a package that passed validation is reported Success if and only if
\* none of its version attempts produced an error (a package without versions
\* included), and then its error summary is empty.
C5_SuccessIffNoError ==
    mode = "concurrent" =>
        \A i \in PkgIdx : \A k \in RowsOf(i) :
            valErr[i] = NoErr =>
                /\ table[k].Status = "Success" <=> FailedVersions(i) = 0
                /\ table[k].Status = "Success" => table[k].ErrorMessage = <<>>
                /\ Len(table[k].ErrorMessage) = FailedVersions(i)

\* C5 witness: a package without versions was reported Success and a package
\* with a failed version was reported otherwise.
C5_Witness ==
    /\ mode = "concurrent"
    /\ \E i, i2 \in PkgIdx : \E k \in RowsOf(i), k2 \in RowsOf(i2) :
        /\ valErr[i] = NoErr /\ Len(packages[i].versions) = 0
        /\ table[k].Status = "Success"
        /\ valErr[i2] = NoErr /\ FailedVersions(i2) > 0
        /\ table[k2].Status # "Success"

\* C6: getTargetPackageName is total and deterministic: for every source name
\* it yields the mapped name when the name is a key of the table and the name
\* itself otherwise, and the name a worker or the sequential loop resolved
\* earlier is the name the function yields for the same input now.
C6_ResolveTotalDeterministic ==
    /\ \A n \in Names :
        /\ getTargetPackageName(n) \in Names
        /\ n \in DOMAIN mappings => getTargetPackageName(n) = mappings[n]
        /\ n \notin DOMAIN mappings => getTargetPackageName(n) = n
    /\ \A i \in PkgIdx :
        targetName[i] # NoName =>
            /\ targetName[i] = getTargetPackageName(packages[i].name)
            /\ targetName[i] = Resolved(packages[i].name)
    /\ (mode = "sequential" /\ spc \in {"exists", "versions", "download", "upload",
                                         "metadata", "visibility"}) =>
            /\ sTarget = getTargetPackageName(packages[si].name)
            /\ sTarget = Resolved(packages[si].name)

\* C6 witness: one worker resolved a name that is a key of the table, another
\* a name that is not.
C6_Witness ==
    /\ mode = "concurrent"
    /\ Len(packages) = 2
    /\ packages[1].name \in DOMAIN mappings
    /\ packages[2].name \notin DOMAIN mappings
    /\ targetName[1] = mappings[packages[1].name]
    /\ targetName[1] # packages[1].name
    /\ targetName[2] = packages[2].name

\* C7: every download request names the package by its source name and every
\* upload, metadata and visibility request names it by the resolved target
\* name; with mapping {pkgA -> pkgA2} and packages [pkgA, pkgB] uploads go to
\* pkgA2 and pkgB.
C7_RequestNames ==
    /\ \A r \in downloads : r.name = packages[r.idx].name
    /\ \A r \in uploads : r.name = Resolved(packages[r.idx].name)
    /\ \A r \in metas : r.name = Resolved(packages[r.idx].name)
    /\ \A r \in visibs : r.name = Resolved(packages[r.idx].name)
    /\ (mappings = [n \in {"pkgA"} |-> "pkgA2"] /\ Len(packages) = 2) =>
        \A r \in uploads : r.name = (IF r.idx = 1 THEN "pkgA2" ELSE "pkgB")

\* C7 witness: mapping {pkgA -> pkgA2}, packages [pkgA, pkgB], both were
\* downloaded under their source names and uploaded as pkgA2 and pkgB.
C7_Witness ==
    /\ mode = "concurrent"
    /\ mappings = [n \in {"pkgA"} |-> "pkgA2"]
    /\ Len(packages) = 2
    /\ {r.name : r \in downloads} = {"pkgA", "pkgB"}
    /\ {r.name : r \in uploads} = {"pkgA2", "pkgB"}

-----------------------------------------------------------------------------
(* Properties of the retry loops *)

\* every call of fn made so far failed, and there was one
AllCallsFailed == fnCalls # <<>> /\ \A k \in DOMAIN fnCalls : ~fnCalls[k]

\* the download of version j of package i ended in failure
DownloadGaveUp(i, j) ==
    vers[i][j].pc = "done" /\ vers[i][j].failed /\ vers[i][j].ulCalls = 0

\* the download loop: a download that failed on every attempt was called
\* exactly maxRetries times and the error sent carries the last call's error
DownloadExhaustion ==
    mode = "concurrent" =>
        \A i \in PkgIdx : \A j \in DOMAIN vers[i] :
            /\ vers[i][j].dlCalls <= maxRetries
            /\ DownloadGaveUp(i, j) =>
                /\ vers[i][j].dlCalls = maxRetries
                /\ \E m \in DOMAIN versionErrors[i] :
                      versionErrors[i][m] =
                          VersionError("download", packages[i].versions[j].name,
                                       ErrOfCall(maxRetries))
                /\ \A m \in DOMAIN versionErrors[i] :
                      versionErrors[i][m][2] = packages[i].versions[j].name =>
                          versionErrors[i][m][3] = ErrOfCall(maxRetries)

\* C11 (as claimed): an operation that fails on every attempt is invoked
\* exactly 3 times and the resulting error carries the error of the third
\* attempt, in retryableUpload and in the download loop alike.
C11_ExhaustionAlwaysN ==
    /\ DownloadExhaustion
    /\ (mode = "upload" /\ upc = "done" /\ AllCallsFailed) =>
          /\ Len(fnCalls) = maxRetries
          /\ upResult = ExhaustedError(ErrOfCall(maxRetries))

\* C11 (amended): the download loop of processConcurrently calls a download
\* that always fails exactly 3 times and sends the error of the third call;
\* retryableUpload never calls fn more than 3 times and, when every call
\* failed, either made exactly 3 calls and returns the exhaustion error that
\* carries the error of the third call, or saw its context cancelled during a
\* backoff wait and returns the context's error.
C11_ExhaustionUnlessCancelled ==
    /\ DownloadExhaustion
    /\ mode = "upload" =>
          /\ Len(fnCalls) <= maxRetries
          /\ (upc = "done" /\ AllCallsFailed) =>
                \/ /\ Len(fnCalls) = maxRetries
                   /\ upResult = ExhaustedError(ErrOfCall(maxRetries))
                   /\ Len(waits) = maxRetries
                \/ /\ ctxDone
                   /\ upResult = CtxErr
          /\ (upc = "done" /\ AllCallsFailed /\ ~ctxDone) => Len(fnCalls) = maxRetries

\* C11 witness: the manifest upload failed three times with a live context and
\* retryableUpload returned the exhaustion error.
C11_Witness ==
    /\ mode = "upload"
    /\ upc = "done"
    /\ fnCalls = <<FALSE, FALSE, FALSE>>
    /\ ~ctxDone
    /\ upResult = ExhaustedError("error of call 3")

\* the download of version j of package i succeeded
DownloadSucceeded(i, j) ==
    \/ vers[i][j].pc = "upload"
    \/ vers[i][j].pc = "done" /\ vers[i][j].ulCalls > 0

\* C12: a retry loop whose operation fails k-1 times and then succeeds
\* (k <= 3) ends with success after exactly k calls and makes no call after
\* the success: in retryableUpload the only successful call of fn is the last
\* one and nil is returned after k-1 elapsed waits; a download that succeeded
\* was called once more than it failed, at most 3 times, and sent no error; a
\* version whose download succeeded on the third call and whose upload
\* succeeded did not fail, and its package is reported Success when no
\* version of it failed.
C12_SuccessAfterKAttempts ==
    /\ mode = "upload" =>
          /\ \A k \in DOMAIN fnCalls : fnCalls[k] => k = Len(fnCalls)
          /\ (fnCalls # <<>> /\ fnCalls[Len(fnCalls)]) =>
                /\ upc = "done"
                /\ upResult = UploadOk
                /\ Len(fnCalls) <= maxRetries
                /\ Len(waits) = Len(fnCalls) - 1
    /\ mode = "concurrent" =>
          \A i \in PkgIdx : \A j \in DOMAIN vers[i] :
              /\ DownloadSucceeded(i, j) =>
                    /\ vers[i][j].dlCalls = vers[i][j].retries + 1
                    /\ vers[i][j].dlCalls <= maxRetries
                    /\ \A m \in DOMAIN versionErrors[i] :
                          versionErrors[i][m][2] = packages[i].versions[j].name =>
                              versionErrors[i][m][1] = "upload"
              /\ (vers[i][j].pc = "done" /\ vers[i][j].dlCalls = 3
                    /\ vers[i][j].retries = 2 /\ vers[i][j].err = NoErr) =>
                    /\ ~vers[i][j].failed
                    /\ (FailedVersions(i) = 0) =>
                          \A r \in RowsOf(i) : table[r].Status = "Success"

\* C12 witness: a download failed twice and succeeded on the third call, the
\* upload succeeded and the package was reported Success.
C12_Witness ==
    /\ mode = "concurrent"
    /\ \E i \in PkgIdx : \E j \in DOMAIN vers[i] :
        /\ vers[i][j].pc = "done"
        /\ vers[i][j].dlCalls = 3
        /\ vers[i][j].sleeps = <<1, 2>>
        /\ ~vers[i][j].failed
        /\ \E r \in RowsOf(i) : table[r].Status = "Success"

\* the calls of the sequential loop for one operation on one version
SeqCalls(op, i, j) ==
    {m \in DOMAIN sLog : sLog[m].op = op /\ sLog[m].idx = i /\ sLog[m].j = j}

\* the sequential loop is at operation op of version j of package i
SeqAt(op, i, j) == spc = op /\ si = i /\ sj = j

\* C13 (as claimed): every download and every upload is retried up to 3
\* times before it fails its version: a failed version of the concurrent
\* path has had 3 download calls or 3 upload calls; an operation the
\* sequential loop has given up has been called 3 times; a container layer
\* whose upload failed has been tried 3 times.
C13_EveryMutationRetried ==
    /\ mode = "concurrent" =>
          \A i \in PkgIdx : \A j \in DOMAIN vers[i] :
              vers[i][j].failed =>
                  vers[i][j].dlCalls = maxRetries \/ vers[i][j].ulCalls = maxRetries
    /\ mode = "sequential" =>
          \A m \in DOMAIN sLog :
              (~sLog[m].ok /\ ~SeqAt(sLog[m].op, sLog[m].idx, sLog[m].j)) =>
                  Cardinality(SeqCalls(sLog[m].op, sLog[m].idx, sLog[m].j)) = maxRetries
    /\ mode = "upload" =>
          \A e \in DOMAIN layerErrors : layerCalls[layerErrors[e].file] = maxRetries

\* the errors collected for version j of package i
ErrorsOf(i, j) ==
    {m \in DOMAIN versionErrors[i] :
        versionErrors[i][m][2] = packages[i].versions[j].name}

\* C14: a failed version does not stop its siblings.  Concurrent path: when a
\* valid package's report is out every version of it has been downloaded at
\* least once, each failed version has put exactly one error on the package's
\* error channel and each other version none, and the report's error summary
\* has one entry per failed version.  Sequential path: once the loop has left
\* a package for which it made any download or upload call, it has called
\* the download of every version of that package.
C14_SiblingsStillAttempted ==
    /\ mode = "concurrent" =>
          \A i \in PkgIdx :
              /\ \A j \in DOMAIN vers[i] :
                    Cardinality(ErrorsOf(i, j)) = IF vers[i][j].failed THEN 1 ELSE 0
              /\ (valErr[i] = NoErr /\ RowsOf(i) # {}) =>
                    /\ \A j \in VerIdx(i) : vers[i][j].dlCalls >= 1
                    /\ \A r \in RowsOf(i) :
                          Len(table[r].ErrorMessage) = FailedVersions(i)
    /\ mode = "sequential" =>
          \A i \in PkgIdx :
              (si > i /\ \E m \in DOMAIN sLog : sLog[m].idx = i) =>
                  \A j \in VerIdx(i) :
                      \E m \in SeqCalls("download", i, j) : TRUE

\* C14 witness: the sequential loop is over; the first version of a package
\* failed to download, the second failed to upload and the third was uploaded.
C14_Witness ==
    /\ mode = "sequential"
    /\ spc = "done"
    /\ \E i \in PkgIdx :
        /\ Len(packages[i].versions) = 3
        /\ \E m \in SeqCalls("download", i, 1) : ~sLog[m].ok
        /\ \E m \in SeqCalls("upload", i, 2) : ~sLog[m].ok
        /\ \E m \in SeqCalls("upload", i, 3) : sLog[m].ok

\* package i obeys its package-level rule and has a version that violates
\* the version-level rule
OnlyVersionRuleBroken(i) ==
    /\ GetValidator(packages[i].ptype) = NoErr
    /\ packages[i].nameOk
    /\ \E j \in VerIdx(i) : ~packages[i].versions[j].filesOk

\* C15 (as claimed): in the concurrent path a version that violates its
\* version-level rule does not fail the whole package: the package is not
\* reported Failed, and by the time its report is out its versions that obey
\* the rule have been downloaded.
C15_VersionRuleDoesNotFailPackage ==
    mode = "concurrent" =>
        \A i \in PkgIdx :
            OnlyVersionRuleBroken(i) =>
                \A r \in RowsOf(i) :
                    /\ table[r].Status # "Failed"
                    /\ \A j \in VerIdx(i) :
                          packages[i].versions[j].filesOk => vers[i][j].dlCalls >= 1

-----------------------------------------------------------------------------
(* Properties of the validators and of the upload size check *)

\* the characters the nuget rule lists
ListedCharacters ==
    {"!", "@", "#", "$", "%", "^", "&", "*", "(", ")", "+", "=", "[", "]", "{",
     "}", "|", "\\", ":", ";", "\"", "'", "<", ">", "?", ",", "/"}

UppercaseLetters == {"A"}

\* what C16 says a name of each type must look like
NameAccepted(ptype, name) ==
    CASE ptype = "container" -> \A k \in DOMAIN name : name[k] # ":"
      [] ptype = "npm" -> name # <<>> /\ name[1] = "@"
      [] ptype = "maven" -> Cardinality({k \in DOMAIN name : name[k] = ":"}) = 1
      [] ptype = "nuget" -> \A k \in DOMAIN name : name[k] \notin ListedCharacters
      [] ptype = "rubygems" ->
            \A k \in DOMAIN name :
                /\ name[k] \notin ListedCharacters
                /\ name[k] # " "
                /\ name[k] \notin UppercaseLetters

\* C16: the package-level rule of each of the five types accepts a name
\* exactly when: container - no ':' in it; npm - it starts with '@'; maven -
\* exactly one ':' in it; nuget - none of the listed special characters in
\* it; rubygems - none of those characters, no space and no uppercase letter.
C16_PackageRules ==
    (mode = "packageRule" /\ vOut.done /\ vIn.ptype \in SupportedTypes) =>
        (vOut.err = NoErr <=> NameAccepted(vIn.ptype, vIn.name))

\* C16 witness: the maven rule has rejected a name with two ':'.
C16_Witness ==
    /\ mode = "packageRule"
    /\ vOut.done
    /\ vIn.ptype = "maven"
    /\ vIn.name = <<":", ":">>
    /\ vOut.err # NoErr

\* a size of at most `mib` MiB
AtMostMiB(size, mib) == size.mib < mib \/ (size.mib = mib /\ size.bytes = 0)

\* the file's name ends in the given extension
EndsIn(f, ext) == f.name # <<>> /\ f.name[Len(f.name)] = ext

\* the file is a metadata.gz file: its name ends in metadata.gz
IsMetadataGz(f) ==
    /\ Len(f.name) >= 2
    /\ f.name[Len(f.name) - 1] = "metadata"
    /\ f.name[Len(f.name)] = ".gz"

\* what C17 says the files of a version of each type must look like
VersionAccepted(ptype, files) ==
    CASE ptype = "container" -> \A f \in files : AtMostMiB(f.size, 10 * 1024)
      [] ptype = "npm" -> \E f \in files : f.name = <<"package", ".json">>
      [] ptype = "maven" -> \E f \in files : f.name = <<"pom", ".xml">>
      [] ptype = "nuget" ->
            /\ \E f \in files : EndsIn(f, ".nupkg")
            /\ \E f \in files : EndsIn(f, ".nuspec")
      [] ptype = "rubygems" ->
            /\ \E f \in files : EndsIn(f, ".gem")
            /\ \E f \in files : EndsIn(f, ".gemspec")
            /\ \A f \in files : IsMetadataGz(f) => AtMostMiB(f.size, 2)

\* C17: the version-level rule of each of the five types accepts a version
\* exactly when: container - no file is larger than 10 GiB; npm - some file
\* is named exactly package.json; maven - some file is named pom.xml; nuget -
\* some file ends in .nupkg and some file ends in .nuspec; rubygems - some
\* file ends in .gem, some file ends in .gemspec, and every file whose name
\* ends in metadata.gz is at most 2 MiB.
C17_VersionRules ==
    (mode = "versionRule" /\ vOut.done /\ vIn.ptype \in SupportedTypes) =>
        (vOut.err = NoErr <=> VersionAccepted(vIn.ptype, vIn.files))

\* C17 witness: the rubygems rule has accepted a version with a .gem file, a
\* .gemspec file and a metadata.gz file of exactly 2 MiB.
C17_Witness ==
    /\ mode = "versionRule"
    /\ vOut.done
    /\ vIn.ptype = "rubygems"
    /\ Cardinality(vIn.files) = 3
    /\ [name |-> <<"metadata", ".gz">>, size |-> Size(2, 0)] \in vIn.files
    /\ vOut.err = NoErr

\* the maximum file size C18 gives for each type, in MiB
ClaimedLimitMiB(ptype) ==
    CASE ptype = "container" -> 10 * 1024
      [] ptype = "npm" -> 256
      [] ptype = "maven" -> 1024
      [] ptype = "nuget" -> 250
      [] ptype = "rubygems" -> 512

\* C18: UploadPackageVersion returns an error, without reaching the upload
\* function of the type (which sends the requests), for every file list that
\* holds a file larger than the maximum file size of its package type
\* (container 10 GiB, npm 256 MiB, maven 1 GiB, nuget 250 MiB, rubygems
\* 512 MiB); the upload function is reached exactly when no error is
\* returned; a list whose files are all at most the limit, a file of exactly
\* the limit included, passes the size check.
C18_SizeCheckBeforeUpload ==
    (mode = "uploadCheck" /\ vOut.done /\ vIn.ptype \in SupportedTypes) =>
        /\ (\E k \in DOMAIN vIn.files :
                ~AtMostMiB(vIn.files[k].size, ClaimedLimitMiB(vIn.ptype))) =>
              vOut.err # NoErr /\ vOut.dispatched = "none"
        /\ vOut.err = NoErr <=> vOut.dispatched = vIn.ptype
        /\ vOut.err # NoErr => vOut.dispatched = "none"
        /\ (\A k \in DOMAIN vIn.files :
                AtMostMiB(vIn.files[k].size, ClaimedLimitMiB(vIn.ptype))) =>
              vOut.err \in {NoErr, "failed to stat file"}

\* C18 witness: a nuget upload of one file of exactly 250 MiB has passed the
\* size check and reached the upload function.
C18_Witness ==
    /\ mode = "uploadCheck"
    /\ vOut.done
    /\ vIn.ptype = "nuget"
    /\ Len(vIn.files) = 1
    /\ vIn.files[1].size = Size(250, 0)
    /\ vOut.err = NoErr
    /\ vOut.dispatched = "nuget"

\* C19: GetValidator yields a validator for container, npm, maven, nuget and
\* rubygems and an error for every other type string; a package of an
\* unsupported type is never downloaded or uploaded and, in the concurrent
\* path, is reported Failed; and the run still processes every other
\* package: when it ends every package was validated once and, in the
\* concurrent path, has its report.
C19_UnsupportedTypeFailsAlone ==
    /\ \A t \in TypeStrings :
          GetValidator(t) = NoErr <=>
              t \in {"container", "npm", "maven", "nuget", "rubygems"}
    /\ \A i \in PkgIdx :
          packages[i].ptype \notin {"container", "npm", "maven", "nuget", "rubygems"} =>
              /\ ~\E r \in downloads \cup uploads : r.idx = i
              /\ \A r \in RowsOf(i) : table[r].Status = "Failed"
    /\ (mode = "concurrent" /\ mainPc \in {"closed", "returned"}) =>
          \A i \in PkgIdx : validated[i] = 1 /\ Cardinality(RowsOf(i)) = 1
    /\ (mode = "sequential" /\ spc = "done") =>
          \A i \in PkgIdx : sValidated[i] = 1

\* C19 witness: the concurrent run is over; a package of an unsupported type
\* was reported Failed and the package after it was uploaded.
C19_Witness ==
    /\ mode = "concurrent"
    /\ mainPc = "returned"
    /\ Len(packages) = 2
    /\ packages[1].ptype = "generic"
    /\ \E r \in RowsOf(1) : table[r].Status = "Failed"
    /\ \E r \in uploads : r.idx = 2

-----------------------------------------------------------------------------
(* Properties of the aggregator *)

\* a package worker has been started and has not finished
InFlight(i) == wpc[i] \notin {"idle", "done"}

\* C20: reportValidation renders nothing while a package worker is in
\* flight: whenever the table and the counts have been rendered the results
\* channel had been closed, and whenever results is closed every package
\* worker has been started and has finished.
C20_NoPrematureRender ==
    mode = "concurrent" =>
        /\ rendered.drawn => resultsClosed /\ rpc = "done"
        /\ rpc = "done" => rendered.drawn
        /\ resultsClosed =>
              /\ wg = 0
              /\ \A i \in PkgIdx : wpc[i] = "done"
        /\ (\E i \in PkgIdx : InFlight(i)) => ~rendered.drawn

\* C20 witness: the table was rendered after two workers finished, one of
\* them with a version.
C20_Witness ==
    /\ mode = "concurrent"
    /\ rendered.drawn
    /\ Len(packages) = 2
    /\ Len(rendered.rows) = 2
    /\ \E i \in PkgIdx : Len(packages[i].versions) > 0 /\ valErr[i] = NoErr

-----------------------------------------------------------------------------
(* Properties of the catalog fetch *)

\* the IDs of a sequence of nodes or packages, in order
IDs(seq) == [m \in DOMAIN seq |-> seq[m].ID]

\* what C8 says of every state of a fetch
PaginationSafe ==
    /\ Len(requests) <= Len(pages)
    /\ \A k \in DOMAIN requests :
        requests[k].cursor = IF k = 1 THEN NoCursor ELSE EndCursor(k - 1)
    /\ (fpc = "done" /\ fetchErr = NoErr) =>
        /\ Len(requests) = Len(pages)
        /\ IDs(fetchResult) = IDs(ConcatPages(Len(pages)))
        /\ \A m \in DOMAIN fetchResult :
             fetchResult[m].Name = ConcatPages(Len(pages))[m].Name

C9_ErrorAbortsFetch ==
    /\ [](fetchErr # NoErr => (fpc = "done" /\ fetchResult = <<>>))
    /\ [][fetchErr # NoErr =>
            (requests' = requests /\ probesSince' = probesSince /\ fetchErr' = fetchErr)]_vars

\* C9 witness: the second page request failed after a first page with nodes
\* had been accumulated, and nothing was returned.
C9_Witness ==
    /\ fetchErr # NoErr
    /\ Len(requests) = 2
    /\ probesSince = 0
    /\ acc # <<>>
    /\ fetchResult = <<>>

\* C10: every page request is preceded by a rate-limit probe of its own; the
\* latest probe before it reported remaining > 0 and no wait lies between that
\* probe and the request; and no page request is issued before a reset time
\* declared by an earlier probe that reported remaining = 0.
C10_RateLimitGate ==
    \A k \in DOMAIN requests :
        /\ requests[k].probes >= 1
        /\ requests[k].remaining > 0
        /\ ~requests[k].slept
        /\ \A r \in requests[k].resets : requests[k].at >= r

\* C10 witness: a probe reported remaining = 0 with a reset time in the
\* future, and the page request was issued at that time or later.
C10_Witness ==
    \E k \in DOMAIN requests :
        /\ requests[k].resets # {}
        /\ requests[k].probes >= 2
        /\ requests[k].at >= 1
        /\ \A r \in requests[k].resets : requests[k].at >= r

-----------------------------------------------------------------------------
(* Properties of the container layer store *)

\* the accepted uploads of the layer with digest d
PutsOf(d) == {m \in DOMAIN puts : puts[m] = d}

\* C21 (as claimed): across the transfers that reach the target, a layer with
\* a given digest is uploaded at most once, also when the references to it
\* are handled concurrently.
C21_LayerUploadedAtMostOnce ==
    \A d \in Digests : Cardinality(PutsOf(d)) <= 1

-----------------------------------------------------------------------------
(* Properties of the existence probe of SyncPackages *)

\* the requests of a log that belong to package i
RequestsFor(log, i) == {r \in log : r.idx = i}

\* the sequential loop has left package i behind
SeqPast(i) == si > i \/ spc = "done"

\* C22: the existence probe names the package by its resolved target name
\* and is made before anything of the package is downloaded; with
\* skip-existing set, a package the probe reports as existing has no version
\* downloaded or uploaded; with skip-existing unset, every version of such a
\* package is downloaded, and uploaded when its download succeeded.
C22_SkipExistingByIdentity ==
    mode = "sequential" =>
        \A p \in probesExist :
            /\ p.name = Resolved(packages[p.idx].name)
            /\ (si = p.idx /\ spc = "versions" /\ sj = 0) =>
                   RequestsFor(downloads, p.idx) = {}
            /\ (p.answer = "yes" /\ skipExisting) =>
                   /\ RequestsFor(downloads, p.idx) = {}
                   /\ RequestsFor(uploads, p.idx) = {}
                   /\ SeqPast(p.idx)
            /\ (p.answer = "yes" /\ ~skipExisting /\ SeqPast(p.idx)) =>
                   \A j \in DOMAIN packages[p.idx].versions :
                       /\ \E m \in SeqCalls("download", p.idx, j) : TRUE
                       /\ (\E m \in SeqCalls("download", p.idx, j) : sLog[m].ok) =>
                              \E m \in SeqCalls("upload", p.idx, j) : TRUE

\* C22 witness: skip-existing is set; the first package, which has a version,
\* was reported as existing and nothing of it was requested, while the second
\* package, reported as absent, had its version downloaded and uploaded.
C22_Witness ==
    /\ mode = "sequential"
    /\ skipExisting
    /\ spc = "done"
    /\ Len(packages) = 2
    /\ Len(packages[1].versions) = 1
    /\ [idx |-> 1, name |-> Resolved(packages[1].name), answer |-> "yes"] \in probesExist
    /\ RequestsFor(downloads, 1) = {}
    /\ \E p \in probesExist : p.idx = 2 /\ p.answer = "no"
    /\ RequestsFor(uploads, 2) # {}

-----------------------------------------------------------------------------
(* Properties of the sync command and of LoadMappings *)

\* C23 (as claimed): when the mapping file cannot be loaded or the catalog
\* fetch fails, the process exits with a non-zero status.
C23_TopLevelFailureExitsNonZero ==
    (cpc = "exited" /\ topFailure # NoErr) => exitCode # "0"

\* the records of the mapping file after the first that have two fields or more
LaterPairs == {k \in 2..Len(mappingFile.records) : Len(mappingFile.records[k]) >= 2}

\* the later pairs whose first field is the name n
LaterPairsOf(n) == {k \in LaterPairs : mappingFile.records[k][1] = n}

\* every record of the mapping file has as many fields as the first
Rectangular ==
    \A k \in DOMAIN mappingFile.records :
        Len(mappingFile.records[k]) = Len(mappingFile.records[1])

\* LoadMappings was called on a file that could be opened
LoadedCsv == mode = "loadMappings" /\ loadOut.done /\ mappingFile.kind = "csv"

\* C24 (as claimed): the first record never becomes a mapping, and every
\* later record with at least two fields is loaded as source -> target from
\* its first two fields (the target being that of some later record with this
\* source).
C24_EveryLaterPairLoaded ==
    LoadedCsv =>
        /\ \A n \in DOMAIN mappings : LaterPairsOf(n) # {}
        /\ \A k \in LaterPairs :
              LET n == mappingFile.records[k][1] IN
              /\ n \in DOMAIN mappings
              /\ \E k2 \in LaterPairsOf(n) : mappings[n] = mappingFile.records[k2][2]

\* C24 (amended): when every record of the file has as many fields as the
\* first and the file has a record, LoadMappings returns nil and the table
\* holds exactly the sources of the later records with two fields or more,
\* each with the second field of the last such record, whatever the first
\* record contains; when the records differ in their number of fields,
\* LoadMappings returns an error and the table stays empty.
C24_LaterPairsLoadedWhenRead ==
    LoadedCsv =>
        /\ (Rectangular /\ Len(mappingFile.records) >= 1) =>
              /\ loadOut.err = NoErr
              /\ ~loadOut.panics
              /\ DOMAIN mappings = {mappingFile.records[k][1] : k \in LaterPairs}
              /\ \A n \in DOMAIN mappings :
                    \E k \in LaterPairsOf(n) :
                        /\ \A k2 \in LaterPairsOf(n) : k2 <= k
                        /\ mappings[n] = mappingFile.records[k][2]
        /\ ~Rectangular =>
              /\ loadOut.err # NoErr
              /\ ~loadOut.panics
              /\ DOMAIN mappings = {}

\* C24 witness: the first record reads like the pair pkgA -> pkgB, two later
\* records map pkgB; after the load the table maps pkgB as the last record
\* says and does not map pkgA.
C24_Witness ==
    /\ LoadedCsv
    /\ mappingFile.records = << <<"pkgA", "pkgB">>, <<"pkgB", "pkgA">>, <<"pkgB", "pkgB">> >>
    /\ loadOut.err = NoErr
    /\ DOMAIN mappings = {"pkgB"}
    /\ mappings["pkgB"] = "pkgB"

\* LoadMappings has returned, or the run started from a loaded table
MappingsLoaded == cpc \notin {"execute", "newSync", "load"}

\* C25: once LoadMappings has returned, no step of a run changes the mapping
\* table: not name resolution, not a package or version worker of
\* processConcurrently, not the loop of SyncPackages.
C25_MappingsReadOnly == [][MappingsLoaded => mappings' = mappings]_vars

\* C25 witness: a run of the command loaded pkgA -> pkgB from its mapping
\* file, resolved the name of pkgA with it and uploaded a version under the
\* name pkgB.
C25_Witness ==
    /\ cpc = "loop"
    /\ loadOut.done
    /\ DOMAIN mappings = {"pkgA"}
    /\ mappings["pkgA"] = "pkgB"
    /\ sTarget = "pkgB"
    /\ \E r \in uploads : r.name = "pkgB"

-----------------------------------------------------------------------------
(* Properties of the end of processConcurrently *)

\* C26 (as claimed): when processConcurrently has returned, reportValidation
\* has received every report and has rendered the table and the counts.
C26_RenderedAtReturn ==
    (mode = "concurrent" /\ mainPc = "returned") =>
        /\ Len(table) = Len(packages)
        /\ rendered.drawn

\* the rendered rows with a given status
RenderedWith(status) == {k \in DOMAIN rendered.rows : rendered.rows[k].Status = status}

\* C27: when reportValidation renders, the three counts add up to the number
\* of reports received, which is the number of input packages; each count is
\* the number of rows with its status; the table holds exactly one row per
\* package, in whatever order the reports arrived.
C27_CountsAddUp ==
    (mode = "concurrent" /\ rendered.drawn) =>
        /\ rendered.counts.success + rendered.counts.partial + rendered.counts.failure
              = Len(rendered.rows)
        /\ Len(rendered.rows) = Len(packages)
        /\ rendered.counts.success = Cardinality(RenderedWith("Success"))
        /\ rendered.counts.partial = Cardinality(RenderedWith("Partial Success"))
        /\ rendered.counts.failure = Cardinality(RenderedWith("Failed"))
        /\ \A i \in PkgIdx :
              Cardinality({k \in DOMAIN rendered.rows :
                             rendered.rows[k].PackageName = packages[i].name}) = 1

\* C27 witness: two packages, the report of the second arrived first; one row
\* is Failed and one is Partial Success, and the table was rendered.
C27_Witness ==
    /\ mode = "concurrent"
    /\ rendered.drawn
    /\ Len(packages) = 2
    /\ Len(rendered.rows) = 2
    /\ rendered.rows[1].PackageName = packages[2].name
    /\ RenderedWith("Failed") # {}
    /\ RenderedWith("Partial Success") # {}
    /\ rendered.counts = [success |-> 0, failure |-> 1, partial |-> 1]

-----------------------------------------------------------------------------
(* Properties of the rate-limit wait *)

\* C28 (as claimed): after a probe that reports remaining = 0 the fetcher
\* waits before it does anything else, also when the declared reset time is
\* already in the past: the step from that probe to the next request is a
\* wait during which time passes, so probes never follow each other without
\* an intervening wait.
C28_WaitBetweenProbes ==
    [][(mode = "fetch" /\ fpc = "sleep" /\ fpc' # "sleep") => now' > now]_vars

-----------------------------------------------------------------------------
(* Properties of the backoff waits *)

\* the waits 1, 2, ..., n, in units of the base retry delay
LinearWaits(n) == [k \in 1..n |-> k]

\* the failed calls of fn in retryableUpload so far
FailedAttempts == Cardinality({k \in DOMAIN fnCalls : ~fnCalls[k]})

\* the download retry loop of every version goroutine has slept k times the
\* base delay after its k-th failed call, the final one included
DownloadWaitsLinear ==
    mode = "concurrent" =>
        \A i \in PkgIdx : \A j \in DOMAIN vers[i] :
            /\ vers[i][j].sleeps = LinearWaits(vers[i][j].retries)
            /\ (vers[i][j].failed /\ vers[i][j].ulCalls = 0) =>
                   vers[i][j].sleeps = LinearWaits(maxRetries)

\* C29 (as claimed): once the wait that follows a failed attempt is over, the
\* k-th failed attempt has been followed by a wait of k times the base delay,
\* for every failed attempt, in retryableUpload and in the download loop.
C29_EveryFailureFullyWaited ==
    /\ DownloadWaitsLinear
    /\ (mode = "upload" /\ upc # "backoff") => waits = LinearWaits(FailedAttempts)

\* C29 (amended): as claimed in the download loop, and in retryableUpload as
\* long as the context is not cancelled before the wait is over; a wait that
\* the cancellation ends is the last one and is not completed.
C29_FullWaitsUnlessCancelled ==
    /\ DownloadWaitsLinear
    /\ (mode = "upload" /\ upc # "backoff" /\ upResult # CtxErr) =>
           waits = LinearWaits(FailedAttempts)
    /\ (mode = "upload" /\ upResult = CtxErr) =>
           /\ FailedAttempts >= 1
           /\ waits = LinearWaits(FailedAttempts - 1)

\* C29 witness: retryableUpload failed three times and waited 1, 2 and 3
\* times the base delay, the last wait before it returned the error.
C29_Witness ==
    /\ mode = "upload"
    /\ upc = "done"
    /\ FailedAttempts = maxRetries
    /\ waits = <<1, 2, 3>>
    /\ upResult = ExhaustedError(lastErr)

-----------------------------------------------------------------------------
(* Properties of cancellation in retryableUpload *)

\* ContainerUpload has reached retryableUpload
InRetryableUpload == mode = "upload" /\ manifest.generated

\* C30: retryableUpload looks at the context only in a backoff wait.  Every
\* pass of the loop calls fn, whatever the context: at the loop head the
\* calls made equal the passes begun, and a finished retryableUpload has
\* called fn at least once.  The context's error is returned only from a
\* backoff wait, after a failed call, with the context cancelled, and no call
\* is made after it.
C30_CancellationOnlyInBackoff ==
    InRetryableUpload =>
        /\ upc = "retry" => Len(fnCalls) = attempt
        /\ upc = "backoff" => (Len(fnCalls) = attempt + 1 /\ ~fnCalls[Len(fnCalls)])
        /\ upc = "done" => Len(fnCalls) >= 1
        /\ upResult = CtxErr =>
              /\ ctxDone
              /\ upc = "done"
              /\ Len(fnCalls) = attempt + 1
              /\ ~fnCalls[Len(fnCalls)]
              /\ Len(waits) = attempt

\* C30 witness: the context was cancelled, fn was called twice and failed
\* twice, the first wait elapsed and the second wait returned the context's
\* error.
C30_Witness ==
    /\ InRetryableUpload
    /\ ctxDone
    /\ upResult = CtxErr
    /\ fnCalls = <<FALSE, FALSE>>
    /\ waits = <<1>>

-----------------------------------------------------------------------------
(* Claims about the container upload's manifest *)

\* the positions of opts.Files that hold a layer file
LayerIdx == {k \in FileIdx : isContainerLayer(opts.Files[k])}

\* how often digest d occurs in a sequence of digests
Occurrences(d, digests) == Cardinality({i \in DOMAIN digests : digests[i] = d})

\* the manifest names every layer file's digest, once per layer file
ReferencesEveryLayer ==
    /\ manifest.generated
    /\ Len(manifest.Layers) = Cardinality(LayerIdx)
    /\ \A d \in Digests :
           Occurrences(d, manifest.Layers)
               = Cardinality({k \in LayerIdx : opts.Files[k].digest = d})

-----------------------------------------------------------------------------
(* pkg/api: UploadManager.MavenUpload and API.uploadMavenFile.  A file is   *)
(* its name, its extension and its bytes (named by their digest); the       *)
(* target holds, per file of the call, the main upload and the checksum     *)
(* uploads it accepted.                                                     *)

\* most files of one Maven version
MaxMavenFiles == 3

\* the files a Maven version directory may hold, in the order of their
\* names: a file that is neither POM nor JAR, two JARs and a POM
MavenFiles ==
    <<[name |-> "README", ext |-> ".txt", digest |-> "d4"],
      [name |-> "lib-sources", ext |-> ".jar", digest |-> "d3"],
      [name |-> "lib", ext |-> ".jar", digest |-> "d2"],
      [name |-> "lib", ext |-> ".pom", digest |-> "d1"]>>

\* the files at the positions `chosen`, in the order of the listing
Listing(chosen) ==
    [i \in 1..Cardinality(chosen) |->
        MavenFiles[CHOOSE k \in chosen : Cardinality({j \in chosen : j < k}) = i - 1]]

\* the file lists of at most maxLen files
MavenFileLists(maxLen) ==
    {Listing(chosen) : chosen \in {c \in SUBSET DOMAIN MavenFiles : Cardinality(c) <= maxLen}}

\* the three checksum uploads of uploadMavenFile, by the suffix of their URL
ChecksumSuffixes == {".md5", ".sha1", ".sha256"}

\* the URL suffix of the main upload
MainUpload == ""

\* md5.Sum(data), sha1.Sum(data), sha256.Sum256(data): the sum is a function
\* of the algorithm and of the bytes
Checksum(suffix, file) == [alg |-> suffix, of |-> file.digest]

\* `for _, file := range opts.Files`: the last .pom file is kept as pomFile
\* (0: none)
pomFile ==
    LET poms == {k \in FileIdx : opts.Files[k].ext = ".pom"}
    IN  IF poms = {} THEN 0 ELSE CHOOSE k \in poms : \A j \in poms : j <= k

\* every .jar file is appended to jarFiles
jarFiles == {k \in FileIdx : opts.Files[k].ext = ".jar"}

\* the retryableUpload of a file that has not started
IdleFile == [pc |-> "idle", attempt |-> 0, left |-> {}, stored |-> {}, err |-> NoErr]

\* retryableUpload returned for this file
Ended(f) == f.pc \in {"ok", "err"}

\* retryableUpload after fn returned an error: ctx.Err() when the context is
\* cancelled, else the wait and the next attempt, or the final error when
\* the attempts are used up
FailedCall(f) ==
    IF ctxDone
    THEN [f EXCEPT !.pc = "err", !.err = CtxErr.msg, !.left = {}]
    ELSE IF f.attempt + 1 < maxRetries
         THEN [f EXCEPT !.pc = "call", !.attempt = @ + 1, !.left = {}]
         ELSE [f EXCEPT !.pc = "err", !.attempt = @ + 1, !.left = {},
                        !.err = "upload failed after attempts"]

\* the end of a JAR goroutine: its error, if any, goes to uploadErrors, and
\* the deferred functions release the token and the WaitGroup
JarGoroutineEnds(k, f) ==
    IF k \in jarFiles /\ Ended(f)
    THEN /\ tsem' = tsem - 1
         /\ uploadErrors' = IF f.pc = "err"
                            THEN Append(uploadErrors, [msg |-> f.err, file |-> k])
                            ELSE uploadErrors
    ELSE UNCHANGED <<tsem, uploadErrors>>

\* MavenUpload: the files are sorted out; without a POM, or with a POM that
\* does not parse, an error is returned; else the POM's retryableUpload begins
MavenFind ==
    /\ mode = "maven"
    /\ tpc = "find"
    /\ IF pomFile = 0
       THEN /\ tResult' = [msg |-> "missing required pom.xml file"]
            /\ tpc' = "done"
            /\ UNCHANGED tfiles
       ELSE \/ /\ tResult' = [msg |-> "failed to parse POM"]
               /\ tpc' = "done"
               /\ UNCHANGED tfiles
            \/ /\ tpc' = "pom"
               /\ tfiles' = [tfiles EXCEPT ![pomFile].pc = "call"]
               /\ UNCHANGED tResult
    /\ UNCHANGED <<tsem, uploadErrors>>
    /\ UNCHANGED <<inputVars, concVars, seqVars, logVars, fetchVars, uploadVars,
                   registryVars, validVars, cmdVars, exportVars>>

\* uploadMavenFile, first half: the file is read, the sums are computed and
\* the main file is PUT; a failure of the read or of the PUT fails the call
MavenPutFile(k) ==
    /\ mode = "maven"
    /\ tfiles[k].pc = "call"
    /\ \E ok \in BOOLEAN :
        LET f == tfiles[k]
            next == IF ok
                    THEN [f EXCEPT !.pc = "sums", !.left = ChecksumSuffixes,
                                   !.stored = @ \cup {[suffix |-> MainUpload,
                                                       data |-> opts.Files[k].digest]}]
                    ELSE FailedCall(f)
        IN  /\ tfiles' = [tfiles EXCEPT ![k] = next]
            /\ JarGoroutineEnds(k, next)
    /\ UNCHANGED <<tpc, tResult>>
    /\ UNCHANGED <<inputVars, concVars, seqVars, logVars, fetchVars, uploadVars,
                   registryVars, validVars, cmdVars, exportVars>>

\* uploadMavenFile, second half: `for checksumURL, checksumData := range
\* checksums` PUTs the three sums in the order the map yields them; the
\* first failure fails the call, the third success ends it with nil
MavenPutChecksum(k) ==
    /\ mode = "maven"
    /\ tfiles[k].pc = "sums"
    /\ \E suffix \in tfiles[k].left, ok \in BOOLEAN :
        LET f == tfiles[k]
            sent == [f EXCEPT !.left = @ \ {suffix},
                              !.stored = @ \cup {[suffix |-> suffix,
                                                  data |-> Checksum(suffix, opts.Files[k])]}]
            next == IF ~ok THEN FailedCall(f)
                    ELSE IF sent.left = {} THEN [sent EXCEPT !.pc = "ok"]
                    ELSE sent
        IN  /\ tfiles' = [tfiles EXCEPT ![k] = next]
            /\ JarGoroutineEnds(k, next)
    /\ UNCHANGED <<tpc, tResult>>
    /\ UNCHANGED <<inputVars, concVars, seqVars, logVars, fetchVars, uploadVars,
                   registryVars, validVars, cmdVars, exportVars>>

\* `if err := m.retryableUpload(...); err != nil { return err }`
PomFailedIgnored(f) == FALSE

PomFailed(f) == f.pc = "err"

\* the POM's retryableUpload returned: its error is returned, else the JAR
\* loop begins
MavenPomReturned ==
    /\ mode = "maven"
    /\ tpc = "pom"
    /\ Ended(tfiles[pomFile])
    /\ IF PomFailed(tfiles[pomFile])
       THEN /\ tResult' = [msg |-> tfiles[pomFile].err]
            /\ tpc' = "done"
       ELSE /\ tpc' = "jars"
            /\ UNCHANGED tResult
    /\ UNCHANGED <<tfiles, tsem, uploadErrors>>
    /\ UNCHANGED <<inputVars, concVars, seqVars, logVars, fetchVars, uploadVars,
                   registryVars, validVars, cmdVars, exportVars>>

\* the JAR files no goroutine was started for yet
JarsToStart == {k \in jarFiles : tfiles[k].pc = "idle"}

\* `for _, jar := range jarFiles`: a token is acquired and the goroutine of
\* the next JAR is started
MavenSpawn ==
    /\ mode = "maven"
    /\ tpc = "jars"
    /\ JarsToStart # {}
    /\ tsem < concurrency
    /\ LET k == CHOOSE j \in JarsToStart : \A i \in JarsToStart : j <= i
       IN  tfiles' = [tfiles EXCEPT ![k].pc = "call"]
    /\ tsem' = tsem + 1
    /\ UNCHANGED <<tpc, uploadErrors, tResult>>
    /\ UNCHANGED <<inputVars, concVars, seqVars, logVars, fetchVars, uploadVars,
                   registryVars, validVars, cmdVars, exportVars>>

\* wg.Wait(); close(uploadErrors); the first error is returned, else nil
MavenJoin ==
    /\ mode = "maven"
    /\ tpc = "jars"
    /\ JarsToStart = {}
    /\ \A k \in jarFiles : Ended(tfiles[k])
    /\ tResult' = IF Len(uploadErrors) > 0 THEN Head(uploadErrors) ELSE UploadOk
    /\ tpc' = "done"
    /\ UNCHANGED <<tfiles, tsem, uploadErrors>>
    /\ UNCHANGED <<inputVars, concVars, seqVars, logVars, fetchVars, uploadVars,
                   registryVars, validVars, cmdVars, exportVars>>

MavenNext ==
    \/ MavenFind
    \/ \E k \in FileIdx : MavenPutFile(k)
    \/ \E k \in FileIdx : MavenPutChecksum(k)
    \/ MavenPomReturned
    \/ MavenSpawn
    \/ MavenJoin

\* one call of MavenUpload, with a context that is live or cancelled
InitMaven ==
    /\ mode = "maven"
    /\ packages = <<>>
    /\ mappings = <<>>
    /\ skipExisting = FALSE
    /\ pages = <<>>
    /\ opts \in [Organization : {"org"}, PackageName : {"pkg"}, Version : {"v1"},
                 Files : MavenFileLists(MaxMavenFiles)]
    /\ ctxDone \in BOOLEAN
    /\ blobs = {}
    /\ vIn = NoIn
    /\ vOut = NoOut
    /\ ConcIdle /\ SeqIdle /\ LogsEmpty /\ FetchIdle /\ UploadIdle /\ CmdIdle
    /\ ExportIdle
    /\ tpc = "find"
    /\ tfiles = [k \in FileIdx |-> IdleFile]
    /\ tsem = 0
    /\ uploadErrors = <<>>
    /\ tResult = Pending

SpecMaven == InitMaven /\ [][MavenNext]_vars

-----------------------------------------------------------------------------
(* Claims about MavenUpload *)

\* what the target holds of file k when all of uploadMavenFile went through
FullyUploaded(k) ==
    {[suffix |-> MainUpload, data |-> opts.Files[k].digest]}
        \cup {[suffix |-> s, data |-> Checksum(s, opts.Files[k])] : s \in ChecksumSuffixes}

\* the main upload of file k was accepted
MainStored(k) == \E u \in tfiles[k].stored : u.suffix = MainUpload

\* the POM goes first, no JAR follows a failed POM, and no checksum is sent
\* before its main file was accepted
PomFirstChecksumsLast ==
    /\ \A k \in jarFiles \ {pomFile} :
           tfiles[k].pc # "idle" => tfiles[pomFile].pc = "ok"
    /\ (pomFile # 0 /\ tfiles[pomFile].pc = "err") =>
           /\ \A k \in FileIdx \ {pomFile} : tfiles[k] = IdleFile
           /\ (~ctxDone => tfiles[pomFile].attempt = maxRetries)
    /\ \A k \in FileIdx :
           /\ tfiles[k].stored \subseteq FullyUploaded(k)
           /\ tfiles[k].stored # {} => MainStored(k)

\* C32 as stated: the POM is uploaded before any JAR upload starts and no
\* JAR is uploaded when the POM upload fails for good; every uploaded file
\* has its .md5, .sha1 and .sha256 uploads, computed over the same bytes and
\* sent only after the main upload succeeded.
C32_EveryUploadedFileHasChecksums ==
    mode = "maven" =>
        /\ PomFirstChecksumsLast
        /\ tpc = "done" =>
               \A k \in FileIdx : MainStored(k) => tfiles[k].stored = FullyUploaded(k)

\* C32, amended: the POM is uploaded before any JAR upload starts and no
\* JAR is uploaded when the POM upload fails for good; checksums are sent
\* only after the main upload succeeded and are computed over the same
\* bytes; every file whose upload call returned nil has all three of them.
C32_ChecksumsOfCompletedUploads ==
    mode = "maven" =>
        /\ PomFirstChecksumsLast
        /\ \A k \in FileIdx : tfiles[k].pc = "ok" => tfiles[k].stored = FullyUploaded(k)
        /\ tResult = UploadOk =>
               \A k \in jarFiles \cup {pomFile} : tfiles[k].stored = FullyUploaded(k)

\* MavenUpload returned nil for a POM and two JARs, one of which needed a
\* second attempt
C32_Witness ==
    /\ mode = "maven"
    /\ tResult = UploadOk
    /\ Cardinality(jarFiles) = 2
    /\ \E k \in jarFiles : tfiles[k].attempt > 0

-----------------------------------------------------------------------------
(* pkg/api: the npm, nuget and rubygems uploads, as UploadManager does them *)
(* (NPMUpload, NuGetUpload, RubyGemsUpload) and as UploadPackageVersion,    *)
(* which the sync paths call, does them (uploadNpm, uploadNuGet,            *)
(* uploadRubyGems).  A descriptor file carries the version it declares,     *)
(* "" when it cannot be parsed.                                             *)

\* most files of one npm, nuget or rubygems version
MaxTypedFiles == 2

\* the version being transferred and another one
TransferredVersion == "v1"
DeclaredVersions == {"v1", "v2", ""}

\* the extension of the file that declares the version, per package type
DescriptorExt(ptype) ==
    CASE ptype = "npm" -> ".json"
      [] ptype = "nuget" -> ".nupkg"
      [] ptype = "rubygems" -> ".gem"

\* the files a version of the type may hold: its descriptor, declaring one
\* version or another or unreadable, and one more file (the tarball of npm)
TypedFilePool(ptype) ==
    {[name |-> "package", ext |-> DescriptorExt(ptype), digest |-> "d1", declares |-> v] :
        v \in DeclaredVersions}
    \cup {[name |-> "pkg", ext |-> ".tgz", digest |-> "d2", declares |-> ""]}

TypedFileLists(ptype, maxLen) == UNION {[1..n -> TypedFilePool(ptype)] : n \in 0..maxLen}

\* the positions of the files with the extension
WithExt(ext) == {k \in FileIdx : opts.Files[k].ext = ext}

\* the file the upload takes the version from (0: none): for npm the last
\* package.json of the loop, for nuget and rubygems the first match (`break`)
descriptorFile ==
    LET found == WithExt(DescriptorExt(opts.PackageType))
    IN  IF found = {} THEN 0
        ELSE IF opts.PackageType = "npm"
             THEN CHOOSE k \in found : \A j \in found : j <= k
             ELSE CHOOSE k \in found : \A j \in found : k <= j

\* the required files are there: package.json and a .tgz for npm, the
\* .nupkg for nuget, the .gem for rubygems
RequiredFilesFound ==
    /\ descriptorFile # 0
    /\ opts.PackageType = "npm" => WithExt(".tgz") # {}

\* `if pkg.Version != opts.Version` (NPMUpload), `if manifest.Metadata.Version
\* != opts.Version` (NuGetUpload), `if spec.Version != opts.Version`
\* (RubyGemsUpload)
VersionMismatch(declared, version) == declared # version

\* NPMUpload, NuGetUpload, RubyGemsUpload up to the call of retryableUpload:
\* the files are looked up, the descriptor is parsed, its version is compared
\* with opts.Version and, for rubygems, the metadata size is checked
ManagerPrepare ==
    /\ mode = "managerUpload"
    /\ tpc = "find"
    /\ IF ~RequiredFilesFound
       THEN /\ tResult' = [msg |-> "missing required files"]
            /\ tpc' = "done"
       ELSE IF opts.Files[descriptorFile].declares = ""
       THEN /\ tResult' = [msg |-> "failed to parse"]
            /\ tpc' = "done"
       ELSE IF VersionMismatch(opts.Files[descriptorFile].declares, opts.Version)
       THEN /\ tResult' = [msg |-> "version mismatch"]
            /\ tpc' = "done"
       ELSE \/ /\ opts.PackageType = "rubygems"
               /\ tResult' = [msg |-> "gem metadata too large"]
               /\ tpc' = "done"
            \/ /\ tpc' = "retry"
               /\ UNCHANGED tResult
    /\ tfiles' = IF tpc' = "retry" THEN [tfiles EXCEPT ![1].pc = "call"] ELSE tfiles
    /\ UNCHANGED <<tsem, uploadErrors>>
    /\ UNCHANGED <<inputVars, concVars, seqVars, logVars, fetchVars, uploadVars,
                   registryVars, validVars, cmdVars, exportVars>>

\* the upload request of a version: the version its descriptor declares, sent
\* as the version being transferred
UploadRequest ==
    [suffix |-> MainUpload,
     data |-> [declares |-> IF descriptorFile = 0 THEN ""
                            ELSE opts.Files[descriptorFile].declares,
               version |-> opts.Version]]

\* retryableUpload: one call of fn (uploadNPMFiles, uploadNuGetPackage or
\* uploadRubyGem), which sends the upload request
ManagerCall ==
    /\ mode = "managerUpload"
    /\ tpc = "retry"
    /\ tfiles[1].pc = "call"
    /\ \E ok \in BOOLEAN :
        LET sent == [tfiles[1] EXCEPT !.stored = @ \cup {UploadRequest}]
        IN  tfiles' = [tfiles EXCEPT ![1] = IF ok THEN [sent EXCEPT !.pc = "ok"]
                                                 ELSE FailedCall(sent)]
    /\ UNCHANGED <<tpc, tsem, uploadErrors, tResult>>
    /\ UNCHANGED <<inputVars, concVars, seqVars, logVars, fetchVars, uploadVars,
                   registryVars, validVars, cmdVars, exportVars>>

\* `return m.retryableUpload(...)`
ManagerReturn ==
    /\ mode = "managerUpload"
    /\ tpc = "retry"
    /\ Ended(tfiles[1])
    /\ tResult' = IF tfiles[1].pc = "ok" THEN UploadOk ELSE [msg |-> tfiles[1].err]
    /\ tpc' = "done"
    /\ UNCHANGED <<tfiles, tsem, uploadErrors>>
    /\ UNCHANGED <<inputVars, concVars, seqVars, logVars, fetchVars, uploadVars,
                   registryVars, validVars, cmdVars, exportVars>>

\* uploadNpm, uploadNuGet, uploadRubyGems, which UploadPackageVersion
\* dispatches to: the files are looked up and opened, the request is built
\* from them and sent once; the status of the response decides the result
ApiUpload ==
    /\ mode = "apiUpload"
    /\ tpc = "find"
    /\ IF ~RequiredFilesFound
       THEN /\ tResult' = [msg |-> "missing required files"]
            /\ UNCHANGED tfiles
       ELSE \/ /\ tResult' = [msg |-> "open failed"]
               /\ UNCHANGED tfiles
            \/ \E ok \in BOOLEAN :
                /\ tfiles' = [tfiles EXCEPT ![1].stored = @ \cup {UploadRequest},
                                            ![1].pc = IF ok THEN "ok" ELSE "err"]
                /\ tResult' = IF ok THEN UploadOk
                              ELSE [msg |-> "upload failed with status"]
    /\ tpc' = "done"
    /\ UNCHANGED <<tsem, uploadErrors>>
    /\ UNCHANGED <<inputVars, concVars, seqVars, logVars, fetchVars, uploadVars,
                   registryVars, validVars, cmdVars, exportVars>>

TypedNext ==
    \/ ManagerPrepare
    \/ ManagerCall
    \/ ManagerReturn
    \/ ApiUpload

\* one upload of an npm, nuget or rubygems version, by UploadManager or by
\* UploadPackageVersion
InitTyped ==
    /\ mode \in {"managerUpload", "apiUpload"}
    /\ packages = <<>>
    /\ mappings = <<>>
    /\ skipExisting = FALSE
    /\ pages = <<>>
    /\ \E ptype \in {"npm", "nuget", "rubygems"} :
          opts \in [Organization : {"org"}, PackageName : {"pkg"},
                    Version : {TransferredVersion}, PackageType : {ptype},
                    Files : TypedFileLists(ptype, MaxTypedFiles)]
    /\ ctxDone \in BOOLEAN
    /\ blobs = {}
    /\ vIn = NoIn
    /\ vOut = NoOut
    /\ ConcIdle /\ SeqIdle /\ LogsEmpty /\ FetchIdle /\ UploadIdle /\ CmdIdle
    /\ ExportIdle
    /\ tpc = "find"
    /\ tfiles = <<IdleFile>>
    /\ tsem = 0
    /\ uploadErrors = <<>>
    /\ tResult = Pending

SpecTyped == InitTyped /\ [][TypedNext]_vars

-----------------------------------------------------------------------------
(* Claims about the npm, nuget and rubygems uploads *)

\* the descriptor of the version declares another version than the one
\* being transferred
DeclaresAnotherVersion ==
    /\ RequiredFilesFound
    /\ opts.Files[descriptorFile].declares \notin {"", opts.Version}

\* C33: for npm, nuget and rubygems no upload request is sent unless the
\* descriptor declares the version being transferred; on a mismatch the
\* upload returns a version-mismatch error without an attempt or a retry.
C33_NoUploadOnVersionMismatch ==
    (mode \in {"managerUpload", "apiUpload"} /\ DeclaresAnotherVersion) =>
        /\ tfiles[1].stored = {}
        /\ tfiles[1].attempt = 0
        /\ tpc = "done" => tResult = [msg |-> "version mismatch"]

-----------------------------------------------------------------------------
(* Claims about metadata and visibility propagation *)

\* the upload of version j of package i returned nil
UploadSucceeded(i, j) ==
    IF mode = "sequential"
    THEN \E e \in DOMAIN sLog :
            sLog[e].op = "upload" /\ sLog[e].idx = i /\ sLog[e].j = j /\ sLog[e].ok
    ELSE vers[i][j].pc = "done" /\ vers[i][j].ulCalls > 0 /\ ~vers[i][j].failed

\* the path is through with package i
PackageProcessed(i) ==
    IF mode = "sequential" THEN si > i \/ spc = "done" ELSE wpc[i] = "done"

\* C34: in the concurrent path as in the sequential path, once a package has
\* been processed a metadata request was made for every version of it whose
\* upload succeeded, and one visibility request was made for the package
\* when versions of it were transferred.
C34_MetadataAndVisibilityPropagated ==
    mode \in {"concurrent", "sequential"} =>
        \A i \in PkgIdx :
            PackageProcessed(i) =>
                /\ \A j \in VerIdx(i) :
                       UploadSucceeded(i, j) =>
                           \E r \in metas : r.idx = i /\ r.ver = packages[i].versions[j].name
                /\ (\E j \in VerIdx(i) : UploadSucceeded(i, j)) =>
                       \E r \in visibs : r.idx = i

-----------------------------------------------------------------------------
(* processConcurrently over packages that hold, together, more versions    *)
(* than the token pool has tokens, against registries that serve every call *)

\* one package with n versions, two packages that share n versions, or a
\* package with n - 1 versions beside one whose name fails validation
FanOutLists(n) ==
    {<<MkPkg(1, "ok", a)>> : a \in 1..n}
    \cup {<<MkPkg(1, "ok", a), MkPkg(2, "ok", n - a)>> : a \in 1..(n - 1)}
    \cup {<<MkPkg(1, "ok", n - 1), MkPkg(2, "badName", 1)>>}

InitFanOut ==
    /\ mode = "fanOut"
    /\ packages \in FanOutLists(maxConcurrent + OverPool)
    /\ mappings = <<>>
    /\ skipExisting = FALSE
    /\ pages = <<>>
    /\ opts = NoOpts
    /\ ctxDone = FALSE
    /\ blobs = {}
    /\ vIn = NoIn
    /\ vOut = NoOut
    /\ ConcIdle /\ SeqIdle /\ LogsEmpty /\ FetchIdle /\ UploadIdle /\ CmdIdle
    /\ TypedIdle /\ ExportIdle

SpecFanOut == InitFanOut /\ [][ConcNext]_vars

\* the versions of package i whose transfer is in flight
VersionsInFlight(i) == {j \in VerIdx(i) : vers[i][j].pc \in {"download", "upload"}}

RECURSIVE InFlightUpTo(_)
InFlightUpTo(i) == IF i = 0 THEN 0 ELSE Cardinality(VersionsInFlight(i)) + InFlightUpTo(i - 1)

\* the version transfers in flight across the run
TotalInFlight == InFlightUpTo(Len(packages))

\* the largest version count of the list
LargestVersionCount ==
    CHOOSE n \in {Len(packages[i].versions) : i \in PkgIdx} :
        \A i \in PkgIdx : Len(packages[i].versions) <= n

\* C35: the version fan-out of a package worker takes no token: once the
\* worker waits for its versions every one of its k versions was started, so
\* all k are in flight at once, and the transfers in flight are bounded by
\* the tokens held times the largest version count, not by the pool size.
C35_FanOutTakesNoToken ==
    mode = "fanOut" =>
        /\ sem <= maxConcurrent
        /\ TotalInFlight <= sem * LargestVersionCount
        /\ \A i \in PkgIdx :
               /\ wpc[i] = "waitVersions" => \A j \in VerIdx(i) : vers[i][j].pc # "idle"
               /\ wpc[i] \in {"idle", "validate"} => VersionsInFlight(i) = {}

\* more than maxConcurrent version transfers are in flight at once, all of
\* them versions of one package whose worker holds the only token taken
C35_Witness ==
    /\ mode = "fanOut"
    /\ sem = 1
    /\ TotalInFlight > maxConcurrent
    /\ \E i \in PkgIdx : VersionsInFlight(i) = VerIdx(i) /\ Cardinality(VersionsInFlight(i)) > maxConcurrent

-----------------------------------------------------------------------------
(* Termination of processConcurrently *)

\* the lists with more packages than the token pool has tokens: packages
\* without versions, the second of which fails validation
LongLists ==
    {[i \in 1..len |-> IF i = 2 THEN MkPkg(2, "badName", 0) ELSE MkPkg(i, "ok", 0)] :
        len \in (maxConcurrent + 1)..(maxConcurrent + OverPool)}

\* processConcurrently over the short lists of every kind and over the long
\* lists
InitTerminates ==
    /\ mode = "concurrent"
    /\ packages \in PackageLists(MaxSize) \cup LongLists
    /\ mappings = <<>>
    /\ skipExisting = FALSE
    /\ pages = <<>>
    /\ opts = NoOpts
    /\ ctxDone = FALSE
    /\ blobs = {}
    /\ vIn = NoIn
    /\ vOut = NoOut
    /\ ConcIdle /\ SeqIdle /\ LogsEmpty /\ FetchIdle /\ UploadIdle /\ CmdIdle
    /\ TypedIdle /\ ExportIdle

\* every goroutine that can take a step is scheduled in the end, and every
\* download and upload call returns
SpecTerminates == InitTerminates /\ [][ConcNext]_vars /\ WF_vars(ConcNext)

\* a worker that has a report to send finds the aggregator receiving, and a
\* version goroutine that has an error to send finds room in versionErrors
NoSendBlocks ==
    /\ (\E i \in PkgIdx : wpc[i] \in {"validate", "sendFailed", "waitVersions"}) =>
           (rpc = "recv" /\ ~resultsClosed)
    /\ \A i \in PkgIdx : Len(versionErrors[i]) <= Len(packages[i].versions)

\* the state processConcurrently returns in: every worker and every version
\* goroutine has ended and every token was given back
AllReleased ==
    /\ sem = 0
    /\ wg = 0
    /\ \A i \in PkgIdx : wpc[i] = "done"
    /\ \A i \in PkgIdx : \A j \in VerIdx(i) : vers[i][j].pc \in {"idle", "done"}

\* C36: when every download and upload call returns processConcurrently
\* returns for every package list; no send on results or versionErrors
\* blocks for good, the tokens held equal the workers running, and when the
\* function returns the token pool is empty.
C36_Terminates ==
    /\ [](NoSendBlocks /\ sem = Cardinality(Running))
    /\ [](mainPc = "returned" => AllReleased)
    /\ <>(mainPc = "returned")

\* the function returned for a list of more packages than the pool has
\* tokens, one of them failing validation
C36_Witness ==
    /\ mode = "concurrent"
    /\ mainPc = "returned"
    /\ rpc = "done"
    /\ Len(packages) > maxConcurrent
    /\ \E i \in PkgIdx : valErr[i] # NoErr

-----------------------------------------------------------------------------
(* cmd/export: downloadPackages.  The versions of all packages are taken as *)
(* one list, each version being the sizes of its files.  The goroutines     *)
(* update `result` without a lock: each `result.failed++`,                  *)
(* `result.complete++` and `result.totalSize += n` is a load of the field   *)
(* into a register followed by a store, and the steps of different          *)
(* goroutines interleave.                                                   *)

\* most versions of one export, and most files of a version
MaxExportVersions == 2
MaxExportFiles == 2

\* the file sizes of the export
ExportSizes == {1, 2}

\* `semaphore := make(chan struct{}, 5)`
semaphoreSize == 5

\* the file lists of a version and the version lists of an export
ExportFiles(maxFiles) == UNION {[1..n -> ExportSizes] : n \in 0..maxFiles}
ExportVersions(maxVersions, maxFiles) ==
    UNION {[1..n -> ExportFiles(maxFiles)] : n \in 1..maxVersions}

EVerIdx == 1..Len(eVersions)

\* a goroutine that was not started: position, index of the current file,
\* the register of a pending update and the amount it adds
IdleGoroutine == [pc |-> "idle", fi |-> 0, reg |-> 0, add |-> 0, then |-> "idle"]

\* the field of `result` an update position works on
FieldAt(pc) ==
    CASE pc \in {"loadFailed", "storeFailed"} -> "failed"
      [] pc \in {"loadComplete", "storeComplete"} -> "complete"
      [] pc \in {"loadSize", "storeSize"} -> "totalSize"

\* `for _, version := range pkg.Versions`: wg.Add(1), a token is acquired and
\* the goroutine of the version is started
ExportSpawn ==
    /\ mode = "export"
    /\ ~eReturned
    /\ eNext <= Len(eVersions)
    /\ semaphore < semaphoreSize
    /\ semaphore' = semaphore + 1
    /\ eg' = [eg EXCEPT ![eNext].pc = "mkdir"]
    /\ eNext' = eNext + 1
    /\ UNCHANGED <<eVersions, result, eTally, eReturned>>
    /\ UNCHANGED <<inputVars, concVars, seqVars, logVars, fetchVars, uploadVars,
                   registryVars, validVars, cmdVars, typedVars>>

\* goroutine: os.MkdirAll(versionDir); on an error `result.failed++; return`
ExportMkdir(v) ==
    /\ mode = "export"
    /\ eg[v].pc = "mkdir"
    /\ \E ok \in BOOLEAN :
        IF ok
        THEN /\ eg' = [eg EXCEPT ![v].pc = "file", ![v].fi = 1]
             /\ UNCHANGED eTally
        ELSE /\ eg' = [eg EXCEPT ![v].pc = "loadFailed", ![v].add = 1, ![v].then = "return"]
             /\ eTally' = [eTally EXCEPT !.failed = @ + 1]
    /\ UNCHANGED <<eVersions, eNext, semaphore, result, eReturned>>
    /\ UNCHANGED <<inputVars, concVars, seqVars, logVars, fetchVars, uploadVars,
                   registryVars, validVars, cmdVars, typedVars>>

\* goroutine: `for _, file := range v.Files`: a file that exists with the
\* right size is passed over; else downloadFile runs and its outcome is to
\* be counted; after the last file the deferred functions release the
\* token and the WaitGroup
ExportFile(v) ==
    /\ mode = "export"
    /\ eg[v].pc = "file"
    /\ IF eg[v].fi > Len(eVersions[v])
       THEN /\ eg' = [eg EXCEPT ![v].pc = "done"]
            /\ semaphore' = semaphore - 1
            /\ UNCHANGED eTally
       ELSE /\ UNCHANGED semaphore
            /\ \/ /\ eg' = [eg EXCEPT ![v].fi = @ + 1]
                  /\ UNCHANGED eTally
               \/ /\ eg' = [eg EXCEPT ![v].pc = "loadFailed", ![v].add = 1,
                                      ![v].then = "file"]
                  /\ eTally' = [eTally EXCEPT !.failed = @ + 1]
               \/ /\ eg' = [eg EXCEPT ![v].pc = "loadComplete", ![v].add = 1,
                                      ![v].then = "loadSize"]
                  /\ eTally' = [eTally EXCEPT !.complete = @ + 1,
                                              !.totalSize = @ + eVersions[v][eg[v].fi]]
    /\ UNCHANGED <<eVersions, eNext, result, eReturned>>
    /\ UNCHANGED <<inputVars, concVars, seqVars, logVars, fetchVars, uploadVars,
                   registryVars, validVars, cmdVars, typedVars>>

\* goroutine: the load of an update: the field of `result` is read
ExportLoad(v) ==
    /\ mode = "export"
    /\ eg[v].pc \in {"loadFailed", "loadComplete", "loadSize"}
    /\ eg' = [eg EXCEPT ![v].reg = result[FieldAt(eg[v].pc)],
                        ![v].pc = CASE eg[v].pc = "loadFailed" -> "storeFailed"
                                    [] eg[v].pc = "loadComplete" -> "storeComplete"
                                    [] eg[v].pc = "loadSize" -> "storeSize"]
    /\ UNCHANGED <<eVersions, eNext, semaphore, result, eTally, eReturned>>
    /\ UNCHANGED <<inputVars, concVars, seqVars, logVars, fetchVars, uploadVars,
                   registryVars, validVars, cmdVars, typedVars>>

\* goroutine: the store of an update: the register plus the amount is
\* written back; then `result.totalSize += int64(file.Size)` follows
\* `result.complete++`, the next file follows a counted file, and a failed
\* MkdirAll ends the goroutine
ExportStore(v) ==
    /\ mode = "export"
    /\ eg[v].pc \in {"storeFailed", "storeComplete", "storeSize"}
    /\ result' = [result EXCEPT ![FieldAt(eg[v].pc)] = eg[v].reg + eg[v].add]
    /\ CASE eg[v].then = "return" ->
              /\ eg' = [eg EXCEPT ![v].pc = "done", ![v].reg = 0, ![v].add = 0]
              /\ semaphore' = semaphore - 1
         [] eg[v].then = "loadSize" ->
              /\ eg' = [eg EXCEPT ![v].pc = "loadSize", ![v].reg = 0,
                                  ![v].add = eVersions[v][eg[v].fi], ![v].then = "file"]
              /\ UNCHANGED semaphore
         [] eg[v].then = "file" ->
              /\ eg' = [eg EXCEPT ![v].pc = "file", ![v].fi = @ + 1, ![v].reg = 0,
                                  ![v].add = 0]
              /\ UNCHANGED semaphore
    /\ UNCHANGED <<eVersions, eNext, eTally, eReturned>>
    /\ UNCHANGED <<inputVars, concVars, seqVars, logVars, fetchVars, uploadVars,
                   registryVars, validVars, cmdVars, typedVars>>

\* wg.Wait(); progressbar.Stop(); return result
ExportReturn ==
    /\ mode = "export"
    /\ ~eReturned
    /\ eNext > Len(eVersions)
    /\ \A v \in EVerIdx : eg[v].pc = "done"
    /\ eReturned' = TRUE
    /\ UNCHANGED <<eVersions, eNext, semaphore, eg, result, eTally>>
    /\ UNCHANGED <<inputVars, concVars, seqVars, logVars, fetchVars, uploadVars,
                   registryVars, validVars, cmdVars, typedVars>>

ExportNext ==
    \/ ExportSpawn
    \/ \E v \in EVerIdx : ExportMkdir(v)
    \/ \E v \in EVerIdx : ExportFile(v)
    \/ \E v \in EVerIdx : ExportLoad(v)
    \/ \E v \in EVerIdx : ExportStore(v)
    \/ ExportReturn

\* one call of downloadPackages
InitExport ==
    /\ mode = "export"
    /\ packages = <<>>
    /\ mappings = <<>>
    /\ skipExisting = FALSE
    /\ pages = <<>>
    /\ opts = NoOpts
    /\ ctxDone = FALSE
    /\ blobs = {}
    /\ vIn = NoIn
    /\ vOut = NoOut
    /\ ConcIdle /\ SeqIdle /\ LogsEmpty /\ FetchIdle /\ UploadIdle /\ CmdIdle
    /\ TypedIdle
    /\ eVersions \in ExportVersions(MaxExportVersions, MaxExportFiles)
    /\ eNext = 1
    /\ semaphore = 0
    /\ eg = [v \in EVerIdx |-> IdleGoroutine]
    /\ result = [complete |-> 0, failed |-> 0, totalSize |-> 0]
    /\ eTally = [complete |-> 0, failed |-> 0, totalSize |-> 0]
    /\ eReturned = FALSE

SpecExport == InitExport /\ [][ExportNext]_vars

-----------------------------------------------------------------------------
(* Claims about downloadPackages *)

\* C37: when downloadPackages returns, result.complete is the number of
\* file downloads that succeeded, result.failed the number of file
\* downloads and version-directory creations that failed, and
\* result.totalSize the sum of the sizes of the downloaded files: no update
\* of a download goroutine is lost.
C37_NoLostUpdate ==
    (mode = "export" /\ eReturned) => result = eTally

-----------------------------------------------------------------------------
(* Claims about the order of the manifest's layers *)

\* the digests of the layer files among the first k files, in file order
RECURSIVE LayerDigestsUpTo(_)
LayerDigestsUpTo(k) ==
    IF k = 0 THEN <<>>
    ELSE IF isContainerLayer(opts.Files[k])
         THEN Append(LayerDigestsUpTo(k - 1), opts.Files[k].digest)
         ELSE LayerDigestsUpTo(k - 1)

\* C38: the layer list of the manifest ContainerUpload generates is in the
\* order of the layer files in opts.Files, whatever the order in which the
\* layer uploads completed.
C38_ManifestKeepsFileOrder ==
    (mode = "upload" /\ manifest.generated) =>
        manifest.Layers = LayerDigestsUpTo(Len(opts.Files))

-----------------------------------------------------------------------------
(* Claims about LoadMappings on an empty file *)

\* C39: LoadMappings on a readable mapping file without records completes
\* normally: it returns nil and leaves the table empty, or it returns an
\* error; the header skip does not fail.
C39_EmptyFileLoads ==
    (mode = "loadMappings" /\ loadOut.done /\ mappingFile = CsvFile(<<>>)) =>
        /\ ~loadOut.panics
        /\ loadOut.err = NoErr => mappings = <<>>

-----------------------------------------------------------------------------
(* The sequential loop of SyncPackages on its own *)

InitSequential == Init /\ mode = "sequential"

SpecSequential == InitSequential /\ [][SeqNext]_vars

\* the loop is past the existence probe of package i
PastProbe(i) ==
    \/ SeqPast(i)
    \/ si = i /\ spc \notin {"validate", "exists"}

\* C40: the sequential loop probes the target for every package that passed
\* validation, with skip-existing set or not; a package whose probe returned
\* an error has no version downloaded or uploaded, no metadata and no
\* visibility request, and the loop goes on to the packages after it.
C40_ProbeErrorSkipsPackage ==
    mode = "sequential" =>
        /\ \A i \in PkgIdx :
               (PastProbe(i) /\ sValErr[i] = NoErr) =>
                   Cardinality(RequestsFor(probesExist, i)) = 1
        /\ \A p \in probesExist :
               p.answer = "err" =>
                   /\ RequestsFor(downloads, p.idx) = {}
                   /\ RequestsFor(uploads, p.idx) = {}
                   /\ RequestsFor(metas, p.idx) = {}
                   /\ RequestsFor(visibs, p.idx) = {}
                   /\ SeqPast(p.idx)
        /\ spc = "done" => \A i \in PkgIdx : sValidated[i] = 1

\* skip-existing is off; the probe of the first package, which has a
\* version, returned an error and nothing of it was requested; the second
\* package was probed and its visibility updated
C40_Witness ==
    /\ mode = "sequential"
    /\ ~skipExisting
    /\ spc = "done"
    /\ Len(packages) = 2
    /\ Len(packages[1].versions) = 1
    /\ \E p \in probesExist : p.idx = 1 /\ p.answer = "err"
    /\ RequestsFor(downloads, 1) = {}
    /\ RequestsFor(probesExist, 2) # {}
    /\ RequestsFor(visibs, 2) # {}

====
